---------------------------- MODULE Spec2Model ----------------------------
(***************************************************************************)
(* A model of phloem's adaptive suggestion cache (src/context/cache.rs)    *)
(* as driven by the context manager and the command handler.               *)
(*                                                                         *)
(* The suggestions table is a sequence of rows in insertion (rowid) order. *)
(* Real-valued columns are exact rationals: success_rate is a pair         *)
(* <<numerator, denominator>> and confidence is counted in tenths, so the  *)
(* comparisons of the SQL text are done by cross-multiplication.  The      *)
(* columns prompt and explanation are written by the INSERT and read by no *)
(* query that decides anything here; they are left out of the rows.        *)
(* Time is counted in days; datetime('now') is the variable now.           *)
(***************************************************************************)
EXTENDS Integers, Sequences, FiniteSets, TLC

VARIABLES
    suggestions,   \* the suggestions table: a sequence of rows
    history,       \* the history table: a sequence of rows
    environment,   \* the environment table: key -> value
    now,           \* the clock, in days
    ret,           \* what the call made last returned
    scn,           \* position of the scripted end-to-end scenario A
    race,          \* the two racing processes (feedback, or append)
    context_file,  \* the ledger document PHLOEM.md
    backups,       \* the PHLOEM_* files of the backups directory
    clock,         \* the wall clock, in seconds
    led,           \* history of the ledger calls made
    sel,           \* the interactive selector and its terminal
    app            \* the command handler: its position and its last step

vars ==
    <<suggestions, history, environment, now, ret, scn, race,
      context_file, backups, clock, led, sel, app>>

cacheVars == <<suggestions, history, environment, now, scn, race>>

ledgerVars == <<context_file, backups, clock, led>>

----------------------------------------------------------------------------
(* Bounds of the model *)

MaxFeedback == 10   \* feedback calls on the only row of the table
MaxFeedbackPair == 5 \* feedback calls on each row of a table of two rows
MaxFeedbackMany == 0 \* feedback calls on each row of a larger table
MaxHits == 2        \* lookup hits counted on one row
MaxFail == 3        \* failed executions recorded against the only row
MaxFailPair == 0    \* failed executions recorded against each row of a table of several rows
MaxCalls == 2       \* feedback calls each racing process makes
ScnCycles == 5      \* successful feedback cycles of scenario A
Midnight == 1       \* the second of the clock at which the date changes
MaxLedgerSecond == 1 \* seconds the clock runs for while the ledger is written
MaxLedgerCalls == 3 \* append and clear_context calls made on the ledger
MaxSecond == 5      \* seconds the clock runs for while backups rotate
MaxItems == 3       \* suggestions offered by the selector
MaxKeys == 4        \* events the selection loop reads
MaxHistory == 1      \* rows of the history table
MaxHandlerLedgerCalls == 1 \* ledger calls made by the command handler
MaxStoredLedgerCalls == 2 \* ledger calls up to the run of a stored candidate
MaxWriterCalls == 1  \* append calls of each of two concurrent processes
MaxHandlerRows == 1  \* rows of the suggestions table the command handler works on
MaxHandlerFeedback == 5 \* feedback calls the command handler makes on a row
MaxHandlerFail == 1  \* failed executions the command handler records against a row
ServeCycles == 5    \* lookups of a record that is served and confirmed again and again
MaxRotationCalls == 7 \* append and clear_context calls made while backups rotate

(* Constants of the program *)

TTL_DAYS == 7
MIN_USE_COUNT == 5
MIN_SUCCESS_RATE == <<7, 10>>
NEUTRAL_RATE == <<1, 2>>
RANK_W_RATE == 6
RANK_W_CONF == 4
CONF_PARSED == 8
CONF_FALLBACK == 6
KEEP_BACKUPS == 5

----------------------------------------------------------------------------
(* Prompts and the prompt hash *)

Prompts ==
    { <<"a", " ", "b">>,
      <<" ", "A", " ", "b", " ">>,
      <<"a", " ", " ", "b">> }

\* The prompts that generation runs on (and so the prompts that store and
\* feedback are called with); lookups are made with every prompt.
TypedPrompts ==
    { <<" ", "A", " ", "b", " ">>,
      <<"a", " ", " ", "b">> }

Commands == {"c1", "c2"}

\* The candidates the inference client hands over: confidence 0.8 for a
\* candidate parsed from JSON, 0.6 for one recovered from plain text.
Suggestion ==
    { [command |-> "c1", confidence |-> CONF_PARSED],
      [command |-> "c1", confidence |-> CONF_FALLBACK],
      [command |-> "c2", confidence |-> CONF_PARSED] }

IsWhitespace(c) == c = " "

LowerChar(c) ==
    CASE c = "A" -> "a"
      [] c = "B" -> "b"
      [] OTHER -> c

to_lowercase(s) == [i \in 1..Len(s) |-> LowerChar(s[i])]

RECURSIVE trim_start(_)
trim_start(s) ==
    IF s # <<>> /\ IsWhitespace(Head(s)) THEN trim_start(Tail(s)) ELSE s

RECURSIVE trim_end(_)
trim_end(s) ==
    IF s # <<>> /\ IsWhitespace(s[Len(s)])
    THEN trim_end(SubSeq(s, 1, Len(s) - 1))
    ELSE s

trim(s) == trim_end(trim_start(s))

CharCode(c) ==
    CASE c = " " -> 1
      [] c = "a" -> 2
      [] c = "b" -> 3
      [] c = "A" -> 4
      [] c = "B" -> 5
      [] c = "(" -> 6
      [] c = ")" -> 7

Radix == 8

Width == 2 ^ 28

\* DefaultHasher::new() has fixed keys, so the digest is a function of the
\* bytes hashed; it is modelled as a positional digest of those bytes.
RECURSIVE Digest(_)
Digest(s) ==
    IF s = <<>> THEN 1
    ELSE (Digest(SubSeq(s, 1, Len(s) - 1)) * Radix + CharCode(s[Len(s)])) % Width

\* Variant: the prompt is trimmed but not lowercased before it is hashed.
hash_prompt_cased(prompt) == Digest(trim(prompt))

\* The prompt that format_suggestions builds for a follow-up:
\* format!("{original_prompt} ({})", modification_request.trim())
FollowupPrompt(original_prompt, modification_request) ==
    original_prompt \o <<" ", "(">> \o trim(modification_request) \o <<")">>

\* The prompts typed at the command handler: a prompt, and the text that a
\* follow-up on it with the request "b" builds, typed as a prompt itself.
HandlerPrompts ==
    { <<"a", " ", " ", "b">>,
      FollowupPrompt(<<"a", " ", " ", "b">>, <<"b">>) }

\* prompt.to_lowercase().trim().hash(..), tabulated over the prompts in use
PromptHash == [p \in Prompts \cup HandlerPrompts |-> Digest(trim(to_lowercase(p)))]

hash_prompt(prompt) ==
    IF prompt \in DOMAIN PromptHash THEN PromptHash[prompt]
    ELSE Digest(trim(to_lowercase(prompt)))

----------------------------------------------------------------------------
(* Rational arithmetic on <<numerator, denominator>> *)

RateGt(r, q) == r[1] * q[2] > q[1] * r[2]

----------------------------------------------------------------------------
(* The suggestions table *)

\* Variant: the store is counted as a first use.
NewRow_counted(h, sug, t) ==
    [ prompt_hash   |-> h,
      suggestion    |-> sug.command,
      confidence    |-> sug.confidence,
      created_at    |-> t,
      last_used     |-> t,
      use_count     |-> 1,
      success_count |-> 0,
      success_rate  |-> NEUTRAL_RATE,
      fb            |-> 0 ]

NewRow(h, sug, t) ==
    [ prompt_hash   |-> h,
      suggestion    |-> sug.command,
      confidence    |-> sug.confidence,
      created_at    |-> t,
      last_used     |-> t,
      use_count     |-> 0,
      success_count |-> 0,
      success_rate  |-> NEUTRAL_RATE,
      fb            |-> 0 ]    \* history: record_suggestion_usage calls that hit this row

\* Variant: success_rate >= 0.7 in place of success_rate > 0.7.
Admitted_rate_ge(r, h, t) ==
    /\ r.prompt_hash = h
    /\ r.created_at > t - TTL_DAYS
    /\ r.use_count >= MIN_USE_COUNT
    /\ ~RateGt(MIN_SUCCESS_RATE, r.success_rate)

\* WHERE prompt_hash = ?1 AND created_at > datetime('now', '-7 days')
\*   AND use_count >= 5 AND success_rate > 0.7
Admitted(r, h, t) ==
    /\ r.prompt_hash = h
    /\ r.created_at > t - TTL_DAYS
    /\ r.use_count >= MIN_USE_COUNT
    /\ RateGt(r.success_rate, MIN_SUCCESS_RATE)

\* Variant: the two weights exchanged.
RankNum_swapped(r) ==
    RANK_W_CONF * 10 * r.success_rate[1] + RANK_W_RATE * r.confidence * r.success_rate[2]

\* success_rate * 0.6 + confidence * 0.4, scaled by 100 * denominator
RankNum(r) ==
    RANK_W_RATE * 10 * r.success_rate[1] + RANK_W_CONF * r.confidence * r.success_rate[2]

RankGe(r, q) == RankNum(r) * q.success_rate[2] >= RankNum(q) * r.success_rate[2]

Candidates(rows, h, t) == {i \in DOMAIN rows : Admitted(rows[i], h, t)}

\* ORDER BY (rank) DESC LIMIT 1: a row of maximal rank; which of several
\* rows of equal rank comes first is not specified by the query.
BestRows(rows, h, t) ==
    {i \in Candidates(rows, h, t) :
        \A j \in Candidates(rows, h, t) : RankGe(rows[i], rows[j])}

\* Variant: use_count is incremented and last_used is left alone.
update_suggestion_usage_no_touch(rows, h, t) ==
    [i \in DOMAIN rows |->
        IF rows[i].prompt_hash = h
        THEN [rows[i] EXCEPT !.use_count = @ + 1]
        ELSE rows[i]]

update_suggestion_usage(rows, h, t) ==
    [i \in DOMAIN rows |->
        IF rows[i].prompt_hash = h
        THEN [rows[i] EXCEPT !.last_used = t, !.use_count = @ + 1]
        ELSE rows[i]]

\* Return values: Ok(Some(suggestion)) is the suggestion's command,
\* Ok(None) is None, Ok(()) is Unit.
None == "None"
Unit == "Ok"

\* Variant: the usage update is made before the result is looked at.
get_suggestion_bump_first(prompt) ==
    LET h == hash_prompt(prompt) IN
    /\ suggestions' = update_suggestion_usage(suggestions, h, now)
    /\ IF BestRows(suggestions, h, now) = {}
       THEN ret' = None
       ELSE \E i \in BestRows(suggestions, h, now) : ret' = suggestions[i].suggestion

get_suggestion(prompt) ==
    LET h == hash_prompt(prompt) IN
    IF BestRows(suggestions, h, now) = {}
    THEN /\ ret' = None
         /\ UNCHANGED suggestions
    ELSE \E i \in BestRows(suggestions, h, now) :
            /\ suggestions' = update_suggestion_usage(suggestions, h, now)
            /\ ret' = suggestions[i].suggestion

Existing(rows, h, c) ==
    {i \in DOMAIN rows : rows[i].prompt_hash = h /\ rows[i].suggestion = c}

\* Variant: the stored success_rate is written back as it is.
Recomputed_kept(r) == r.success_rate

Recomputed(r) ==
    IF r.use_count > 0 THEN <<r.success_count, r.use_count>> ELSE NEUTRAL_RATE

\* Variant: the row is inserted without looking for an existing one.
cache_suggestion_blind(prompt, sug) ==
    /\ suggestions' = Append(suggestions, NewRow(hash_prompt(prompt), sug, now))
    /\ ret' = Unit

\* The table cache_suggestion leaves: the UPDATE of the existing row, or
\* the INSERT.
Stored(rows, h, sug, t) ==
    LET ex == Existing(rows, h, sug.command) IN
    IF ex # {}
    THEN LET id == CHOOSE i \in ex : \A j \in ex : i <= j IN
         [rows EXCEPT ![id] =
            [@ EXCEPT !.last_used = t,
                      !.confidence = sug.confidence,
                      !.success_rate = Recomputed(rows[id])]]
    ELSE Append(rows, NewRow(h, sug, t))

cache_suggestion(prompt, sug) ==
    /\ suggestions' = Stored(suggestions, hash_prompt(prompt), sug, now)
    /\ ret' = Unit

Bump(success) == IF success THEN 1 ELSE 0

\* Variant: success_rate is not recomputed.
UsageUpdate_stale_rate(r, success, t) ==
    [r EXCEPT !.use_count = @ + 1,
              !.success_count = @ + Bump(success),
              !.last_used = t,
              !.fb = @ + 1]

\* Variant: success_rate is computed from the success_count before the call.
UsageUpdate_old_count(r, success, t) ==
    [r EXCEPT !.use_count = @ + 1,
              !.success_count = @ + Bump(success),
              !.success_rate = <<r.success_count, r.use_count + 1>>,
              !.last_used = t,
              !.fb = @ + 1]

\* Variant: success_count is incremented whatever the outcome.
UsageUpdate_always_success(r, success, t) ==
    [r EXCEPT !.use_count = @ + 1,
              !.success_count = @ + 1,
              !.success_rate = <<r.success_count + 1, r.use_count + 1>>,
              !.last_used = t,
              !.fb = @ + 1]

UsageUpdate(r, success, t) ==
    [r EXCEPT !.use_count = @ + 1,
              !.success_count = @ + Bump(success),
              !.success_rate = <<r.success_count + Bump(success), r.use_count + 1>>,
              !.last_used = t,
              !.fb = @ + 1]

\* The table record_suggestion_usage leaves.
Used(rows, h, command, success, t) ==
    [i \in DOMAIN rows |->
        IF i \in Existing(rows, h, command)
        THEN UsageUpdate(rows[i], success, t)
        ELSE rows[i]]

record_suggestion_usage(prompt, command, success) ==
    /\ suggestions' = Used(suggestions, hash_prompt(prompt), command, success, now)
    /\ ret' = Unit

\* DELETE FROM suggestions WHERE created_at < datetime('now', '-N days');
\* the same on history
prune_old_data(days) ==
    LET Fresh(r) == ~(r.created_at < now - days)
        Recent(e) == ~(e.executed_at < now - days)
    IN
    /\ suggestions' = SelectSeq(suggestions, Fresh)
    /\ history' = SelectSeq(history, Recent)
    /\ ret' = Unit

\* Variant: the suggestions are deleted and the history is kept.
clear_cache_keeps_history ==
    /\ suggestions' = <<>>
    /\ history' = history
    /\ ret' = Unit

\* DELETE FROM suggestions; DELETE FROM history
clear_cache ==
    /\ suggestions' = <<>>
    /\ history' = <<>>
    /\ ret' = Unit

----------------------------------------------------------------------------
(* The ledger document (src/context/storage.rs).  A document is the        *)
(* sequence of its lines and whether its text ends with a newline.  A line *)
(* is [k, s]: k = "h3" is the line "### s", k = "lu" a line that starts    *)
(* with "Last updated:" (s the date), k = "quote" a line of text that has  *)
(* "### s" inside it, k = "text" any other line with text s.               *)

Line(k, s) == [k |-> k, s |-> s]

T(s) == Line("text", s)

BlankLine == T("")

NoFile == [exists |-> FALSE, lines |-> <<>>, nl |-> FALSE]

File(lines, nl) == [exists |-> TRUE, lines |-> lines, nl |-> nl]

\* Utc::now().format("%Y-%m-%d") and .format("%Y-%m-%dT%H:%M:%SZ")
Date(t) == IF t < Midnight THEN "2026-11-03" ELSE "2026-11-04"

TimeStamp(t) == Date(t) \o "T23:59:57Z+" \o ToString(t)

create_initial_context_file(t) ==
    File(<< T("<!-- PHLOEM_VERSION: 1.0 -->"),
            T("<!-- LAST_UPDATED: " \o TimeStamp(t) \o " -->"),
            T("# Phloem Context"),
            BlankLine,
            T("## User Profile"),
            T("- **OS**: linux"),
            T("- **Shell**: /bin/sh"),
            T("- **Terminal**: xterm"),
            T("- **Preferred Style**: Concise commands with explanations"),
            BlankLine,
            T("## Environment"),
            T("- **Detected Tools**: "),
            T("- **Container Runtime**: "),
            T("- **Cloud Provider**: "),
            T("- **Current Context**: "),
            BlankLine,
            T("## Command Patterns"),
            BlankLine,
            Line("h3", "Git"),
            Line("lu", Date(t)),
            T("User prefers:"),
            T("- Descriptive commit messages"),
            T("- Feature branch workflow"),
            BlankLine,
            Line("h3", "Docker"),
            Line("lu", Date(t)),
            T("User prefers:"),
            T("- Interactive mode for debugging"),
            T("- Volume mounts for development"),
            BlankLine,
            Line("h3", "Kubernetes"),
            Line("lu", Date(t)),
            T("User prefers:"),
            T("- Full resource names over abbreviations"),
            T("- Explicit namespace specification"),
            BlankLine,
            T("## Recent Context"),
            T("- Working directory: /home/user"),
            T("- Current project: Unknown"),
            BlankLine,
            T("## Learning Notes"),
            T("- User interaction patterns will be recorded here"),
            T("- Command preferences will be learned over time") >>,
         TRUE)

\* read_context_file: the text of the document, the empty text if there is
\* no file
read_context_file(f) == IF f.exists THEN f ELSE NoFile

\* current_content.contains("### section")
Contains(f, section) ==
    \E i \in DOMAIN f.lines :
        f.lines[i].k \in {"h3", "quote"} /\ f.lines[i].s = section

\* result.join("\n"), as a document
Joined(result) ==
    IF result # <<>> /\ result[Len(result)] = BlankLine
    THEN IF Len(result) = 1 THEN File(<<>>, FALSE)
         ELSE File(SubSeq(result, 1, Len(result) - 1), TRUE)
    ELSE File(result, FALSE)

\* in_section when the loop of update_existing_section reads line i (or,
\* for i past the last line, when the loop ends): whether the last heading
\* read before it is the heading of the section.
InSectionAt(lines, section, i) ==
    LET headings == {j \in 1..(i - 1) : lines[j].k = "h3"} IN
    /\ headings # {}
    /\ lines[CHOOSE j \in headings : \A k \in headings : k <= j].s = section

\* What the loop pushes to result on reading line i.
Pushed(lines, section, new_content, t, i) ==
    LET line == lines[i]
        in_section == InSectionAt(lines, section, i)
    IN
    IF line.k = "h3"
    THEN (IF in_section
          THEN <<Line("lu", Date(t))>> \o new_content \o <<BlankLine>>
          ELSE <<>>)
         \o <<line>>
    ELSE IF in_section /\ line.k = "lu"
    THEN <<>>
    ELSE IF ~in_section
    THEN <<line>>
    ELSE <<>>

\* pieces[lo] \o ... \o pieces[hi]
RECURSIVE Concat(_, _, _)
Concat(pieces, lo, hi) ==
    IF lo > hi THEN <<>>
    ELSE IF lo = hi THEN pieces[lo]
    ELSE LET mid == (lo + hi) \div 2 IN
         Concat(pieces, lo, mid) \o Concat(pieces, mid + 1, hi)

\* The loop of update_existing_section over the lines of the document, and
\* what follows it when the section is the last one.
UpdateLines(lines, section, new_content, t) ==
    Concat([i \in DOMAIN lines |-> Pushed(lines, section, new_content, t, i)],
           1, Len(lines))
        \o (IF InSectionAt(lines, section, Len(lines) + 1)
            THEN <<Line("lu", Date(t))>> \o new_content
            ELSE <<>>)

update_existing_section(f, section, new_content, t) ==
    Joined(UpdateLines(f.lines, section, new_content, t))

\* content.find("## Recent Context"): the lines that hold it
RecentContextAt(f) == {i \in DOMAIN f.lines : f.lines[i] = T("## Recent Context")}

add_new_section(f, section, new_content, t) ==
    LET section_content ==
            <<BlankLine, Line("h3", section), Line("lu", Date(t))>> \o new_content
    IN
    IF RecentContextAt(f) # {}
    THEN LET pos == CHOOSE i \in RecentContextAt(f) :
                        \A j \in RecentContextAt(f) : i <= j
         IN File(SubSeq(f.lines, 1, pos - 1) \o section_content
                    \o SubSeq(f.lines, pos, Len(f.lines)),
                 f.nl)
    ELSE IF f.nl \/ f.lines = <<>>
         THEN File(f.lines \o section_content, TRUE)
         ELSE File(f.lines \o Tail(section_content), TRUE)

\* The backups directory: its PHLOEM_* files in the order of their
\* modification times, oldest first.  name is the second in the file name;
\* by is the ledger call that wrote the file.
BackupFile(t, f, by) == [name |-> t, content |-> f, by |-> by]

\* fs::copy(context_file, backups/PHLOEM_<second>.md): a file of that name
\* is overwritten
Copied(files, t, f, by) ==
    LET Other(b) == b.name # t IN
    SelectSeq(files, Other) \o <<BackupFile(t, f, by)>>

\* Variant: the files are not put newest first before the first five are
\* skipped.
Evictable_newest(files) ==
    {files[i].name : i \in (KEEP_BACKUPS + 1)..Len(files)}

\* The files cleanup_old_backups tries to remove.
Evictable(files) ==
    {files[i].name : i \in 1..(Len(files) - KEEP_BACKUPS)}

\* cleanup_old_backups, the removal of the files named in stuck failing
cleanup_old_backups(files, stuck) ==
    LET Stays(b) == b.name \notin Evictable(files) \/ b.name \in stuck IN
    SelectSeq(files, Stays)

\* What can go wrong in a ledger call.
IoOutcomes == {"ok", "copy_fails", "list_fails", "write_fails"}

Err == "Err"

\* backup_context_file: the directory it leaves and whether it returned Ok
backup_context_file(io, stuck) ==
    IF ~context_file.exists THEN [ok |-> TRUE, files |-> backups]
    ELSE IF io = "copy_fails" THEN [ok |-> FALSE, files |-> backups]
    ELSE LET copied == Copied(backups, clock, context_file, led.calls + 1) IN
         IF io = "list_fails" THEN [ok |-> FALSE, files |-> copied]
         ELSE [ok |-> TRUE, files |-> cleanup_old_backups(copied, stuck)]

LedgerCall(op, ok, stuck) ==
    [calls |-> led.calls + 1,
     run |-> IF op = "append" /\ ok THEN led.run + 1 ELSE 0,
     last |-> op,
     ok |-> ok,
     at |-> clock,
     stuck |-> stuck # {}]

\* What append_to_context leaves: the backups directory, the document,
\* and whether it returned Ok.
Appended(section, content, io, stuck) ==
    LET current_content == read_context_file(context_file)
        updated_content ==
            IF Contains(current_content, section)
            THEN update_existing_section(current_content, section, content, clock)
            ELSE add_new_section(current_content, section, content, clock)
        backup == backup_context_file(io, stuck)
        ok == backup.ok /\ io # "write_fails"
    IN
    [ok |-> ok,
     backups |-> backup.files,
     context_file |-> IF ok THEN updated_content ELSE context_file]

append_to_context(section, content, io, stuck) ==
    LET done == Appended(section, content, io, stuck) IN
    /\ backups' = done.backups
    /\ context_file' = done.context_file
    /\ ret' = IF done.ok THEN Unit ELSE Err
    /\ led' = LedgerCall("append", done.ok, stuck)

\* Variant: the template is written without a backup being taken.
clear_context_no_backup(io, stuck) ==
    LET ok == io # "write_fails" IN
    /\ backups' = backups
    /\ context_file' = IF ok THEN create_initial_context_file(clock) ELSE context_file
    /\ ret' = IF ok THEN Unit ELSE Err
    /\ led' = LedgerCall("clear", ok, stuck)

clear_context(io, stuck) ==
    LET backup == backup_context_file(io, stuck)
        ok == backup.ok /\ io # "write_fails"
    IN
    /\ backups' = backup.files
    /\ context_file' = IF ok THEN create_initial_context_file(clock) ELSE context_file
    /\ ret' = IF ok THEN Unit ELSE Err
    /\ led' = LedgerCall("clear", ok, stuck)

LedgerOff == [calls |-> 0, run |-> 0, last |-> "none", ok |-> TRUE, at |-> 0, stuck |-> FALSE]

\* The ledger after initialize_directory on second 0.
LedgerInit ==
    /\ context_file = create_initial_context_file(0)
    /\ backups = <<>>
    /\ clock = 0
    /\ led = LedgerOff

----------------------------------------------------------------------------
(* The selector: src/cli/output.rs *)

\* The window of handle_escape_key, in milliseconds.
ESC_WINDOW_MS == 300

\* Key codes: the six the selector acts on, and "x" for any other key.
KeyCodes == {"Up", "Down", "Enter", "Tab", "f", "F", "Esc", "x"}

\* Terminal events: key events and, for those that are not, a resize.
Events == KeyCodes \cup {"Resize"}

\* enum SelectAction, and the two results that are not one.
Execute(i) == [a |-> "Execute", i |-> i]
Output(i) == [a |-> "Output", i |-> i]
Followup(i) == [a |-> "Followup", i |-> i]
Cancel == [a |-> "Cancel", i |-> -1]
NoAction == [a |-> "None", i |-> -1]
IoError == [a |-> "Err", i |-> -1]

\* The events that follow an Escape, each with the milliseconds after the
\* Escape at which it arrives.
ArrivalTimes == {100, 200, 400}
Stamped == [e : Events, at : ArrivalTimes]
Arrivals ==
    {<<>>} \cup {<<x>> : x \in Stamped}
           \cup {<<p[1], p[2]>> : p \in {q \in Stamped \X Stamped : q[1].at < q[2].at}}

\* Outcomes of the terminal calls of one step.
StartIo == {"ok", "raw_fails", "alt_fails"}
LoopIo == {"ok", "render_fails", "render_panics", "read_fails", "poll_fails",
           "second_read_fails", "restore_fails", "leave_fails"}

saturating_sub(x, y) == IF x < y THEN 0 ELSE x - y

\* handle_escape_key: poll for 300 ms, read what is there.
handle_escape_key(selected, arrivals, io) ==
    LET polled == /\ io # "poll_fails"
                  /\ arrivals # <<>>
                  /\ arrivals[1].at < ESC_WINDOW_MS
    IN
    IF polled /\ io # "second_read_fails"
    THEN IF arrivals[1].e \in KeyCodes
         THEN IF arrivals[1].e = "Esc"
              THEN [action |-> Cancel, read |-> 1]
              ELSE [action |-> Followup(selected), read |-> 1]
         ELSE [action |-> Followup(selected), read |-> 1]
    ELSE [action |-> Followup(selected), read |-> 0]

\* Variant: Tab resolves as Enter does.
handle_key_input_tab_runs(key_code, selected, items_len, arrivals, io) ==
    CASE key_code = "Up" ->
            [selected |-> saturating_sub(selected, 1), action |-> NoAction, read |-> 0]
      [] key_code = "Down" ->
            [selected |-> IF selected < items_len - 1 THEN selected + 1 ELSE selected,
             action |-> NoAction, read |-> 0]
      [] key_code \in {"Enter", "Tab"} ->
            [selected |-> selected, action |-> Execute(selected), read |-> 0]
      [] key_code \in {"f", "F"} ->
            [selected |-> selected, action |-> Followup(selected), read |-> 0]
      [] key_code = "Esc" ->
            [selected |-> selected,
             action |-> handle_escape_key(selected, arrivals, io).action,
             read |-> handle_escape_key(selected, arrivals, io).read]
      [] OTHER ->
            [selected |-> selected, action |-> NoAction, read |-> 0]

\* Variant: Down moves the cursor whatever its position.
handle_key_input_unguarded(key_code, selected, items_len, arrivals, io) ==
    CASE key_code = "Up" ->
            [selected |-> saturating_sub(selected, 1), action |-> NoAction, read |-> 0]
      [] key_code = "Down" ->
            [selected |-> selected + 1, action |-> NoAction, read |-> 0]
      [] key_code = "Enter" ->
            [selected |-> selected, action |-> Execute(selected), read |-> 0]
      [] key_code = "Tab" ->
            [selected |-> selected, action |-> Output(selected), read |-> 0]
      [] key_code \in {"f", "F"} ->
            [selected |-> selected, action |-> Followup(selected), read |-> 0]
      [] key_code = "Esc" ->
            [selected |-> selected,
             action |-> handle_escape_key(selected, arrivals, io).action,
             read |-> handle_escape_key(selected, arrivals, io).read]
      [] OTHER ->
            [selected |-> selected, action |-> NoAction, read |-> 0]

\* handle_key_input: the cursor after the key, the action if the key
\* resolves the selector, and the number of further events it read.
handle_key_input(key_code, selected, items_len, arrivals, io) ==
    CASE key_code = "Up" ->
            [selected |-> saturating_sub(selected, 1), action |-> NoAction, read |-> 0]
      [] key_code = "Down" ->
            [selected |-> IF selected < items_len - 1 THEN selected + 1 ELSE selected,
             action |-> NoAction, read |-> 0]
      [] key_code = "Enter" ->
            [selected |-> selected, action |-> Execute(selected), read |-> 0]
      [] key_code = "Tab" ->
            [selected |-> selected, action |-> Output(selected), read |-> 0]
      [] key_code \in {"f", "F"} ->
            [selected |-> selected, action |-> Followup(selected), read |-> 0]
      [] key_code = "Esc" ->
            [selected |-> selected,
             action |-> handle_escape_key(selected, arrivals, io).action,
             read |-> handle_escape_key(selected, arrivals, io).read]
      [] OTHER ->
            [selected |-> selected, action |-> NoAction, read |-> 0]

\* The selector before custom_select is called.  pc is where custom_select
\* is; raw and alt are the state of the terminal; entered says that raw
\* mode was enabled by this call; how is the way the call ended; prev, ev,
\* arrivals, read and io record the last iteration of the loop.
SelOff ==
    [pc |-> "off", n |-> 0, selected |-> 0, raw |-> FALSE, alt |-> FALSE,
     entered |-> FALSE, result |-> NoAction, how |-> "none", steps |-> 0,
     prev |-> 0, ev |-> "none", arrivals |-> <<>>, read |-> 0, io |-> "ok"]

\* custom_select up to the loop: enable_raw_mode()?, then
\* execute!(EnterAlternateScreen)?, then selected = 0.
custom_select_enter(n, io) ==
    IF io = "raw_fails"
    THEN [SelOff EXCEPT !.pc = "returned", !.n = n, !.result = IoError,
                        !.how = "raw_fails", !.io = io]
    ELSE IF io = "alt_fails"
    THEN [SelOff EXCEPT !.pc = "returned", !.n = n, !.raw = TRUE, !.entered = TRUE,
                        !.result = IoError, !.how = "alt_fails", !.io = io]
    ELSE [SelOff EXCEPT !.pc = "loop", !.n = n, !.raw = TRUE, !.entered = TRUE,
                        !.alt = TRUE, !.selected = 0, !.io = io]

\* custom_select after the loop has returned: disable_raw_mode()?, then
\* execute!(LeaveAlternateScreen)?, then the result of the loop.
custom_select_leave(s, result, how, io) ==
    IF io = "restore_fails"
    THEN [s EXCEPT !.pc = "returned", !.result = IoError, !.how = "restore_fails"]
    ELSE IF io = "leave_fails"
    THEN [s EXCEPT !.pc = "returned", !.raw = FALSE, !.result = IoError,
                   !.how = "leave_fails"]
    ELSE [s EXCEPT !.pc = "returned", !.raw = FALSE, !.alt = FALSE,
                   !.result = result, !.how = how]

\* One iteration of selection_loop: render_menu, event::read, and for a
\* key event handle_key_input; the loop returns on an action or an error,
\* and a panic of println! in render_menu unwinds through custom_select.
selection_loop(s, ev, arrivals, io) ==
    LET t == [s EXCEPT !.steps = s.steps + 1, !.prev = s.selected, !.io = io,
                       !.ev = "none", !.arrivals = <<>>, !.read = 0]
        h == handle_key_input(ev, s.selected, s.n, arrivals, io)
    IN
    IF io = "render_panics"
    THEN [t EXCEPT !.pc = "unwound", !.how = "panic"]
    ELSE IF io \in {"render_fails", "read_fails"}
    THEN custom_select_leave(t, IoError, "loop_error", io)
    ELSE IF ev \notin KeyCodes
    THEN [t EXCEPT !.ev = ev]
    ELSE IF h.action = NoAction
    THEN [t EXCEPT !.ev = ev, !.selected = h.selected]
    ELSE custom_select_leave(
            [t EXCEPT !.ev = ev, !.arrivals = arrivals, !.read = h.read,
                      !.selected = h.selected],
            h.action, "resolved", io)

----------------------------------------------------------------------------
(* The command handler (src/cli/commands.rs), the context manager          *)
(* (src/context/manager.rs) and what the selector's result leads to        *)
(* (interactive_select in src/cli/output.rs)                               *)

\* A prompt as the text a note shows it in.
RECURSIVE Shown(_)
Shown(prompt) == IF prompt = <<>> THEN "" ELSE Head(prompt) \o Shown(Tail(prompt))

\* str::contains on sequences of characters
HasWord(s, w) ==
    \E i \in 1..(Len(s) - Len(w) + 1) : SubSeq(s, i, i + Len(w) - 1) = w

\* categorize_prompt: the first group of keywords one of which the
\* lowercased prompt contains
categorize_prompt(prompt) ==
    LET prompt_lower == to_lowercase(prompt)
        has(w) == HasWord(prompt_lower, w)
    IN
    IF has(<<"d","o","c","k","e","r">>) \/ has(<<"c","o","n","t","a","i","n","e","r">>)
    THEN "Docker"
    ELSE IF \/ has(<<"k","u","b","e","c","t","l">>)
            \/ has(<<"p","o","d">>)
            \/ has(<<"k","u","b","e","r","n","e","t","e","s">>)
    THEN "Kubernetes"
    ELSE IF \/ has(<<"g","i","t">>)
            \/ has(<<"c","o","m","m","i","t">>)
            \/ has(<<"b","r","a","n","c","h">>)
    THEN "Git"
    ELSE IF has(<<"f","i","l","e">>) \/ has(<<"f","i","n","d">>) \/ has(<<"l","s">>)
    THEN "File Management"
    ELSE IF \/ has(<<"p","r","o","c","e","s","s">>)
            \/ has(<<"k","i","l","l">>)
            \/ has(<<"p","s">>)
    THEN "Process Management"
    ELSE "General"

\* The candidates the inference client hands to the command handler; the
\* commands of the model are single words, so the first word of a command
\* (command.split_whitespace().next()) is the command.
HandlerSuggestions ==
    { [command |-> "c1", confidence |-> CONF_PARSED],
      [command |-> "ls", confidence |-> CONF_PARSED] }

executable(command) == command

skip_learning == {"ls", "cd", "pwd", "echo", "cat", "grep"}

\* The notes the context manager writes to the ledger (the tick and
\* the arrow of the format strings are left out of the text, and the
\* double quotes are written as single ones, the backquotes not at all).
LearningNote(prompt, sug) ==
    << T("User prompt: '" \o Shown(prompt) \o "'"),
       T("Suggested: " \o sug.command),
       BlankLine >>

ValidatedNote(prompt, command) ==
    << T("Validated executable: " \o executable(command)),
       T("Context: '" \o Shown(prompt) \o "'"),
       T("Full command: " \o command) >>

SuccessNote(prompt, command) ==
    << T("Successful execution:"),
       T("'" \o Shown(prompt) \o "' " \o command) >>

\* Outcomes of the statements a handler runs against the cache database:
\* all succeed, or the one named fails.
DbOutcomes == {"ok", "lookup_fails", "context_fails", "store_fails",
               "usage_fails", "history_fails", "clear_fails", "stats_fails"}

\* The spinner of a handler: the flag its thread polls before every frame,
\* and whether the thread is still there (spawned and not yet finished).
NoSpinner == [running |-> FALSE, alive |-> FALSE]

\* Spinner::new: the flag is set and the thread spawned.
Spinner_new == [running |-> TRUE, alive |-> TRUE]

\* Spinner::stop: the flag is cleared and the thread joined; the thread
\* leaves its loop at the next poll, so the join returns.
Spinner_stop(spinner) == [spinner EXCEPT !.running = FALSE, !.alive = FALSE]

\* What the last step of the command handler did: the handler (op), the
\* prompt handle_prompt ran on and its no_cache option, the number of
\* cache lookups and of clear_cache calls it made, where its candidates
\* came from, the processes it spawned, the feedback calls it made, the
\* cache call that failed in it, the statistics it printed, and the
\* spinner it left when it returned (a Spinner that goes out of scope
\* without stop() is dropped with its thread detached and its flag set).
NoStats == [ok |-> FALSE, total |-> 0, ready |-> 0, avg |-> 0, high |-> 0]

LastOff ==
    [op |-> "none", asked |-> <<>>, no_cache |-> FALSE, lookups |-> 0, clears |-> 0,
     source |-> "none", spawned |-> 0, feedback |-> <<>>, failed |-> "none",
     stats |-> NoStats, spinner |-> NoSpinner]

\* The command handler: constructed and not yet called (pc idle), inside
\* format_suggestions with candidates on the screen (pc select), or back
\* from its command (pc done).
AppOff ==
    [pc |-> "idle", prompt |-> <<>>, offered |-> <<>>, last |-> LastOff]

\* ContextManager::cache_suggestion: the cache row, then the learning note;
\* the result is what it leaves and whether it returned Ok.
manager_cache_suggestion(prompt, sug, db, io, stuck) ==
    IF db = "store_fails"
    THEN [ok |-> FALSE, failed |-> "store", suggestions |-> suggestions,
          context_file |-> context_file, backups |-> backups, led |-> led]
    ELSE LET done == Appended(categorize_prompt(prompt), LearningNote(prompt, sug), io, stuck) IN
         [ok |-> done.ok, failed |-> "none",
          suggestions |-> Stored(suggestions, hash_prompt(prompt), sug, now),
          context_file |-> done.context_file, backups |-> done.backups,
          led |-> LedgerCall("append", done.ok, stuck)]

\* Variant: the learning note is written whatever the outcome.
record_suggestion_feedback_learns_always(prompt, command, success, db, io, stuck) ==
    LET learns == executable(command) \notin skip_learning
        done == Appended(categorize_prompt(prompt), ValidatedNote(prompt, command), io, stuck)
        learned == ~learns \/ done.ok
        used == learned /\ db # "usage_fails"
    IN
    [ok |-> used,
     failed |-> IF learned /\ db = "usage_fails" THEN "usage" ELSE "none",
     suggestions |-> IF used THEN Used(suggestions, hash_prompt(prompt), command, success, now)
                     ELSE suggestions,
     context_file |-> IF learns THEN done.context_file ELSE context_file,
     backups |-> IF learns THEN done.backups ELSE backups,
     led |-> IF learns THEN LedgerCall("append", done.ok, stuck) ELSE led]

\* ContextManager::record_suggestion_feedback: on success
\* learn_successful_command (which returns early for the executables of
\* skip_learning, and whose error is returned before the cache is touched),
\* then the cache's record_suggestion_usage.
record_suggestion_feedback(prompt, command, success, db, io, stuck) ==
    LET learns == success /\ executable(command) \notin skip_learning
        done == Appended(categorize_prompt(prompt), ValidatedNote(prompt, command), io, stuck)
        learned == ~learns \/ done.ok
        used == learned /\ db # "usage_fails"
    IN
    [ok |-> used,
     failed |-> IF learned /\ db = "usage_fails" THEN "usage" ELSE "none",
     suggestions |-> IF used THEN Used(suggestions, hash_prompt(prompt), command, success, now)
                     ELSE suggestions,
     context_file |-> IF learns THEN done.context_file ELSE context_file,
     backups |-> IF learns THEN done.backups ELSE backups,
     led |-> IF learns THEN LedgerCall("append", done.ok, stuck) ELSE led]

\* A row of the history table.
HistoryRow(command, prompt, success, t) ==
    [command |-> command, prompt |-> prompt, success |-> success,
     exit_code |-> IF success THEN 0 ELSE 1, executed_at |-> t]

\* ContextManager::record_command_execution: the history row, the usage
\* update (a failure of which is only logged), and on success the note of
\* update_successful_command_pattern.  The binary never calls it; it is an
\* operation of the library.
record_command_execution(command, prompt, success, db, io, stuck) ==
    LET done == Appended(categorize_prompt(prompt), SuccessNote(prompt, command), io, stuck) IN
    IF db = "history_fails"
    THEN /\ ret' = Err
         /\ UNCHANGED <<suggestions, history, context_file, backups, led>>
         /\ app' = [AppOff EXCEPT !.pc = "done",
                                   !.last = [LastOff EXCEPT !.op = "record",
                                                            !.failed = "history"]]
    ELSE /\ history' = Append(history, HistoryRow(command, prompt, success, now))
         /\ suggestions' = IF db = "usage_fails" THEN suggestions
                            ELSE Used(suggestions, hash_prompt(prompt), command, success, now)
         /\ context_file' = IF success THEN done.context_file ELSE context_file
         /\ backups' = IF success THEN done.backups ELSE backups
         /\ led' = IF success THEN LedgerCall("append", done.ok, stuck) ELSE led
         /\ ret' = IF success /\ ~done.ok THEN Err ELSE Unit
         /\ app' = [AppOff EXCEPT !.pc = "done", !.last =
                        [LastOff EXCEPT !.op = "record",
                                        !.failed = IF db = "usage_fails" THEN "usage"
                                                   ELSE "none"]]

\* Variant: the candidates are generated whatever the lookup returned.
handle_prompt_always_generates(op, original, prompt, no_cache, db, backend, sug, io, stuck) ==
    LET looked == ~no_cache
        hit == FALSE
        lookup_failed == IF looked /\ db = "lookup_fails" THEN "lookup" ELSE "none"
        trace(source, failed, spinner) ==
            [LastOff EXCEPT !.op = op, !.asked = prompt, !.no_cache = no_cache,
                            !.lookups = IF looked THEN 1 ELSE 0,
                            !.source = source, !.failed = failed,
                            !.spinner = spinner]
        kept == manager_cache_suggestion(prompt, sug, db, io, stuck)
    IN
    /\ UNCHANGED history
    /\ IF hit
       THEN /\ get_suggestion(prompt)
            /\ UNCHANGED <<context_file, backups, led>>
            /\ app' = [pc |-> "select", prompt |-> original, offered |-> <<ret'>>,
                       last |-> trace("cache", "none", NoSpinner)]
       ELSE IF db = "context_fails"
       THEN /\ ret' = Err
            /\ UNCHANGED <<suggestions, context_file, backups, led>>
            /\ app' = [AppOff EXCEPT !.pc = "done", !.last = trace("none", "context", NoSpinner)]
       ELSE IF backend = "fails"
       THEN /\ ret' = Err
            /\ UNCHANGED <<suggestions, context_file, backups, led>>
            /\ app' = [AppOff EXCEPT !.pc = "done", !.last = trace("none", lookup_failed, Spinner_new)]
       ELSE IF backend = "empty"
       THEN /\ ret' = None
            /\ UNCHANGED <<suggestions, context_file, backups, led>>
            /\ app' = [AppOff EXCEPT !.pc = "done", !.last =
                            trace("backend", lookup_failed, Spinner_stop(Spinner_new))]
       ELSE /\ suggestions' = kept.suggestions
            /\ context_file' = kept.context_file
            /\ backups' = kept.backups
            /\ led' = kept.led
            /\ ret' = sug.command
            /\ app' = [pc |-> "select", prompt |-> original, offered |-> <<sug.command>>,
                       last |-> trace("backend",
                                      IF kept.failed # "none" THEN kept.failed
                                      ELSE lookup_failed,
                                      Spinner_stop(Spinner_new))]

\* handle_prompt, called for the handler op (the prompt typed, or a
\* follow-up) in a session on the prompt original: the lookup unless
\* no_cache, get_relevant_context, the inference client (which answers with
\* the candidate sug, with none, or fails), and the caching of the
\* candidate, a failure of which is only logged.  Ok(candidates) is the
\* command of the candidate, or None for an empty list.  The spinner is
\* made before the inference call and stopped after it returned Ok; the ?
\* on its error returns without stop().
handle_prompt(op, original, prompt, no_cache, db, backend, sug, io, stuck) ==
    LET looked == ~no_cache
        hit == /\ looked
               /\ db # "lookup_fails"
               /\ BestRows(suggestions, hash_prompt(prompt), now) # {}
        lookup_failed == IF looked /\ db = "lookup_fails" THEN "lookup" ELSE "none"
        trace(source, failed, spinner) ==
            [LastOff EXCEPT !.op = op, !.asked = prompt, !.no_cache = no_cache,
                            !.lookups = IF looked THEN 1 ELSE 0,
                            !.source = source, !.failed = failed,
                            !.spinner = spinner]
        kept == manager_cache_suggestion(prompt, sug, db, io, stuck)
    IN
    /\ UNCHANGED history
    /\ IF hit
       THEN /\ get_suggestion(prompt)
            /\ UNCHANGED <<context_file, backups, led>>
            /\ app' = [pc |-> "select", prompt |-> original, offered |-> <<ret'>>,
                       last |-> trace("cache", "none", NoSpinner)]
       ELSE IF db = "context_fails"
       THEN /\ ret' = Err
            /\ UNCHANGED <<suggestions, context_file, backups, led>>
            /\ app' = [AppOff EXCEPT !.pc = "done", !.last = trace("none", "context", NoSpinner)]
       ELSE IF backend = "fails"
       THEN /\ ret' = Err
            /\ UNCHANGED <<suggestions, context_file, backups, led>>
            /\ app' = [AppOff EXCEPT !.pc = "done", !.last = trace("none", lookup_failed, Spinner_new)]
       ELSE IF backend = "empty"
       THEN /\ ret' = None
            /\ UNCHANGED <<suggestions, context_file, backups, led>>
            /\ app' = [AppOff EXCEPT !.pc = "done", !.last =
                            trace("backend", lookup_failed, Spinner_stop(Spinner_new))]
       ELSE /\ suggestions' = kept.suggestions
            /\ context_file' = kept.context_file
            /\ backups' = kept.backups
            /\ led' = kept.led
            /\ ret' = sug.command
            /\ app' = [pc |-> "select", prompt |-> original, offered |-> <<sug.command>>,
                       last |-> trace("backend",
                                      IF kept.failed # "none" THEN kept.failed
                                      ELSE lookup_failed,
                                      Spinner_stop(Spinner_new))]

\* Variant: the lookup is made whatever the no_cache option says.
handle_followup_cached(request, db, backend, sug, io, stuck) ==
    IF trim(request) = <<>>
    THEN /\ ret' = Unit
         /\ UNCHANGED <<suggestions, history, context_file, backups, led>>
         /\ app' = [app EXCEPT !.last = [LastOff EXCEPT !.op = "again"]]
    ELSE handle_prompt("followup", app.prompt, FollowupPrompt(app.prompt, request),
                       FALSE, db, backend, sug, io, stuck)

\* FormatResult::FollowupRequested in format_suggestions: the request read
\* from stdin; an empty one shows the candidates again, another one runs
\* handle_prompt on the follow-up prompt with no_cache set.
handle_followup(request, db, backend, sug, io, stuck) ==
    IF trim(request) = <<>>
    THEN /\ ret' = Unit
         /\ UNCHANGED <<suggestions, history, context_file, backups, led>>
         /\ app' = [app EXCEPT !.last = [LastOff EXCEPT !.op = "again"]]
    ELSE handle_prompt("followup", app.prompt, FollowupPrompt(app.prompt, request),
                       TRUE, db, backend, sug, io, stuck)

\* The outcomes of Command::status: the command ran and exited with 0, ran
\* and exited otherwise, or could not be spawned.
SpawnOutcomes == {"exit_ok", "exit_fail", "spawn_fails"}

\* Variant: nothing is recorded for a command that could not be spawned.
run_selected_drops_spawn_failure(index, spawn, db, io, stuck) ==
    LET selected_command == app.offered[index + 1]
        success == spawn = "exit_ok"
        fed == record_suggestion_feedback(app.prompt, selected_command, success, db, io, stuck)
    IN
    IF spawn = "spawn_fails"
    THEN /\ ret' = Unit
         /\ UNCHANGED <<suggestions, history, context_file, backups, led>>
         /\ app' = [AppOff EXCEPT !.pc = "done", !.last = [LastOff EXCEPT !.op = "execute"]]
    ELSE /\ suggestions' = fed.suggestions
         /\ context_file' = fed.context_file
         /\ backups' = fed.backups
         /\ led' = fed.led
         /\ ret' = IF fed.ok THEN Unit ELSE Err
         /\ UNCHANGED history
         /\ app' = [AppOff EXCEPT !.pc = "done", !.last =
                [LastOff EXCEPT !.op = "execute",
                                !.spawned = 1,
                                !.feedback = <<[prompt |-> app.prompt,
                                                command |-> selected_command,
                                                success |-> success]>>,
                                !.failed = fed.failed]]

\* interactive_select on Ok(SelectAction::Execute(index)): the command is
\* run through the shell and its outcome fed to the context manager, whose
\* error is only logged.
run_selected(index, spawn, db, io, stuck) ==
    LET selected_command == app.offered[index + 1]
        success == spawn = "exit_ok"
        fed == record_suggestion_feedback(app.prompt, selected_command, success, db, io, stuck)
    IN
    /\ suggestions' = fed.suggestions
    /\ context_file' = fed.context_file
    /\ backups' = fed.backups
    /\ led' = fed.led
    /\ ret' = IF fed.ok THEN Unit ELSE Err
    /\ UNCHANGED history
    /\ app' = [AppOff EXCEPT !.pc = "done", !.last =
            [LastOff EXCEPT !.op = "execute",
                            !.spawned = IF spawn = "spawn_fails" THEN 0 ELSE 1,
                            !.feedback = <<[prompt |-> app.prompt,
                                            command |-> selected_command,
                                            success |-> success]>>,
                            !.failed = fed.failed]]

\* Variant: the command copied is recorded as a successful execution.
output_selected_recorded(index, db, io, stuck) ==
    run_selected(index, "exit_ok", db, io, stuck)

\* interactive_select on Ok(SelectAction::Output(index)): the command goes
\* to the clipboard or to stderr.
output_selected(index, db, io, stuck) ==
    /\ ret' = Unit
    /\ UNCHANGED <<suggestions, history, context_file, backups, led>>
    /\ app' = [AppOff EXCEPT !.pc = "done", !.last = [LastOff EXCEPT !.op = "output"]]

\* One turn of the loop of format_suggestions: the selector resolves with
\* action, and interactive_select or the follow-up does the rest.
format_suggestions(action, spawn, request, db, backend, sug, io, stuck) ==
    CASE action.a = "Execute" -> run_selected(action.i, spawn, db, io, stuck)
      [] action.a = "Output" -> output_selected(action.i, db, io, stuck)
      [] action.a = "Followup" -> handle_followup(request, db, backend, sug, io, stuck)
      [] OTHER ->
            /\ ret' = Unit
            /\ UNCHANGED <<suggestions, history, context_file, backups, led>>
            /\ app' = [AppOff EXCEPT !.pc = "done", !.last = [LastOff EXCEPT !.op = "static"]]

\* handle_clear: clear_cache()? when --cache, then clear_context()? when
\* --context.
handle_clear(cache, context, db, io, stuck) ==
    LET trace == [LastOff EXCEPT !.op = "clear",
                                 !.clears = IF cache THEN 1 ELSE 0,
                                 !.failed = IF cache /\ db = "clear_fails" THEN "clear"
                                            ELSE "none"]
    IN
    /\ app' = [AppOff EXCEPT !.pc = "done", !.last = trace]
    /\ IF cache /\ db = "clear_fails"
       THEN /\ ret' = Err
            /\ UNCHANGED <<suggestions, history, context_file, backups, led>>
       ELSE IF cache /\ ~context
       THEN /\ clear_cache
            /\ UNCHANGED <<context_file, backups, led>>
       ELSE IF context
       THEN /\ clear_context(io, stuck)
            /\ IF cache
               THEN suggestions' = <<>> /\ history' = <<>>
               ELSE UNCHANGED <<suggestions, history>>
       ELSE /\ ret' = Unit
            /\ UNCHANGED <<suggestions, history, context_file, backups, led>>

\* The sum of the success rates of the rows at idxs, as a fraction.
RECURSIVE RateSum(_, _)
RateSum(rows, idxs) ==
    IF idxs = {} THEN <<0, 1>>
    ELSE LET i == CHOOSE k \in idxs : TRUE
             rest == RateSum(rows, idxs \ {i})
             r == rows[i].success_rate
         IN <<rest[1] * r[2] + r[1] * rest[2], rest[2] * r[2]>>

\* AVG(success_rate) over the rows at idxs, which is not empty.
RateAvg(rows, idxs) ==
    LET sum == RateSum(rows, idxs) IN <<sum[1], sum[2] * Cardinality(idxs)>>

\* format!("{:.1}%", rate * 100.0): the rate in tenths of a percent, the
\* nearest one, the even one of two equally near.
PerMille(r) ==
    LET q == (r[1] * 1000) \div r[2]
        twice == 2 * ((r[1] * 1000) % r[2])
    IN IF twice > r[2] \/ (twice = r[2] /\ q % 2 = 1) THEN q + 1 ELSE q

\* get_cache_stats: the counts and the average of the report.
\* AVG(success_rate) over the rows with success_rate > 0.8 is NULL when
\* there is none, which row.get::<f64>() rejects: the call then returns
\* Err.
get_cache_stats(rows, db) ==
    LET cached == {i \in DOMAIN rows :
                        rows[i].use_count >= 5 /\ RateGt(rows[i].success_rate, <<7, 10>>)}
        high_success == {i \in DOMAIN rows : RateGt(rows[i].success_rate, <<8, 10>>)}
    IN
    IF db = "stats_fails" \/ high_success = {}
    THEN NoStats
    ELSE [ok |-> TRUE, total |-> Len(rows), ready |-> Cardinality(cached),
          avg |-> PerMille(RateAvg(rows, high_success)),
          high |-> Cardinality(high_success)]

\* handle_config: the configuration, and the statistics when
\* get_cache_stats returned them.
handle_config(db) ==
    /\ ret' = Unit
    /\ app' = [AppOff EXCEPT !.pc = "done", !.last =
                    [LastOff EXCEPT !.op = "config",
                                    !.stats = get_cache_stats(suggestions, db),
                                    !.failed = IF db = "stats_fails" THEN "stats"
                                               ELSE "none"]]
    /\ UNCHANGED <<suggestions, history, context_file, backups, led>>

----------------------------------------------------------------------------
(* The cache as one process drives it *)

EnvFacts == [os : {"linux"}]

\* The days on which the cache is used: a record made on day 0 is exactly
\* 7 days old on day 7 and older on day 13; one made on day 7 is 6 days old
\* on day 13.
Days == {0, 7, 13}

ScnOff == [step |-> 0, prompt |-> <<>>, command |-> None]

RaceOff ==
    [pc |-> <<>>, arg |-> <<>>, seen |-> <<>>, calls |-> <<>>, wins |-> 0, base |-> <<0, 0>>]

Init ==
    /\ suggestions = <<>>
    /\ history = <<>>
    /\ environment \in EnvFacts
    /\ now = 0
    /\ ret = Unit
    /\ scn = ScnOff
    /\ race = RaceOff
    /\ LedgerInit
    /\ sel = SelOff
    /\ app = AppOff

\* The explored region.  A table of one row: up to MaxFeedback feedback
\* calls, of which up to MaxFail failed, on any day of the clock.  A table
\* of two rows: up to MaxFeedbackPair feedback calls on each, of which up to
\* MaxFailPair failed, on day 0.  A larger table (there are four keys): up
\* to MaxFeedbackMany feedback calls on each row, on day 0.  And up to
\* MaxHits lookup hits counted on a row.
FeedbackCap(rows) ==
    CASE Len(rows) <= 1 -> MaxFeedback
      [] Len(rows) = 2 -> MaxFeedbackPair
      [] OTHER -> MaxFeedbackMany

FailCap(rows) == IF Len(rows) <= 1 THEN MaxFail ELSE MaxFailPair

InRegion(rows, t) ==
    /\ Len(rows) > 1 => t = 0
    /\ \A i \in DOMAIN rows :
            /\ rows[i].fb <= FeedbackCap(rows)
            /\ rows[i].use_count - rows[i].fb <= MaxHits
            /\ rows[i].fb - rows[i].success_count <= FailCap(rows)

Lookup ==
    /\ \E p \in Prompts : get_suggestion(p)
    /\ InRegion(suggestions', now)
    /\ UNCHANGED <<history, environment, now, scn, race, ledgerVars, sel, app>>

Store ==
    /\ \E p \in TypedPrompts, sug \in Suggestion : cache_suggestion(p, sug)
    /\ InRegion(suggestions', now)
    /\ UNCHANGED <<history, environment, now, scn, race, ledgerVars, sel, app>>

Feedback ==
    /\ \E p \in TypedPrompts, c \in Commands, s \in BOOLEAN :
            record_suggestion_usage(p, c, s)
    /\ InRegion(suggestions', now)
    /\ UNCHANGED <<history, environment, now, scn, race, ledgerVars, sel, app>>

Clear ==
    /\ clear_cache
    /\ UNCHANGED <<environment, now, scn, race, ledgerVars, sel, app>>

\* The retention periods prune is called with.
PruneDays == {0, TTL_DAYS}

Prune ==
    /\ \E days \in PruneDays : prune_old_data(days)
    /\ UNCHANGED <<environment, now, scn, race, ledgerVars, sel, app>>

Tick ==
    /\ \E d \in Days :
            /\ d > now
            /\ \A e \in Days : e > now => d <= e
            /\ InRegion(suggestions, d)
            /\ now' = d
    /\ UNCHANGED <<suggestions, history, environment, ret, scn, race, ledgerVars, sel, app>>

Next == Lookup \/ Store \/ Feedback \/ Prune \/ Clear \/ Tick

Spec == Init /\ [][Next]_vars

----------------------------------------------------------------------------
(* End-to-end scenario A: one store, five successful feedback cycles, one  *)
(* lookup, all for the same prompt and command, on any day of the clock.   *)

InitA ==
    /\ suggestions = <<>>
    /\ history = <<>>
    /\ environment \in EnvFacts
    /\ now \in Days
    /\ ret = Unit
    /\ scn = ScnOff
    /\ race = RaceOff
    /\ LedgerInit
    /\ sel = SelOff
    /\ app = AppOff

ScnStore ==
    /\ scn.step = 0
    /\ \E p \in Prompts, sug \in Suggestion :
            /\ cache_suggestion(p, sug)
            /\ scn' = [step |-> 1, prompt |-> p, command |-> sug.command]
    /\ UNCHANGED <<history, environment, now, race, ledgerVars, sel, app>>

ScnFeedback ==
    /\ scn.step \in 1..ScnCycles
    /\ record_suggestion_usage(scn.prompt, scn.command, TRUE)
    /\ scn' = [scn EXCEPT !.step = @ + 1]
    /\ UNCHANGED <<history, environment, now, race, ledgerVars, sel, app>>

ScnLookup ==
    /\ scn.step = ScnCycles + 1
    /\ get_suggestion(scn.prompt)
    /\ scn' = [scn EXCEPT !.step = @ + 1]
    /\ UNCHANGED <<history, environment, now, race, ledgerVars, sel, app>>

NextA == ScnStore \/ ScnFeedback \/ ScnLookup

SpecA == InitA /\ [][NextA]_vars

\* The record of scenario A served again and again: each lookup that
\* returns it is followed by a successful execution of it, as
\* interactive_select feeds it back.
ServeLookup ==
    /\ scn.step > ScnCycles
    /\ scn.step <= ScnCycles + 2 * ServeCycles
    /\ (scn.step - ScnCycles) % 2 = 1
    /\ get_suggestion(scn.prompt)
    /\ scn' = [scn EXCEPT !.step = @ + 1]
    /\ UNCHANGED <<history, environment, now, race, ledgerVars, sel, app>>

ServeFeedback ==
    /\ scn.step > ScnCycles
    /\ (scn.step - ScnCycles) % 2 = 0
    /\ ret = scn.command
    /\ record_suggestion_usage(scn.prompt, scn.command, TRUE)
    /\ scn' = [scn EXCEPT !.step = @ + 1]
    /\ UNCHANGED <<history, environment, now, race, ledgerVars, sel, app>>

NextServe == ScnStore \/ ScnFeedback \/ ServeLookup \/ ServeFeedback

SpecServe == InitA /\ [][NextServe]_vars

----------------------------------------------------------------------------
(* Two processes, each running record_suggestion_usage MaxCalls times on   *)
(* the same (prompt, command).  A call prepares its statement and then     *)
(* executes it; the UPDATE is one statement, which the storage engine runs *)
(* under the database write lock, so its read of the counts and its write  *)
(* are one step.  race.seen[p] is the pair of counts the row held when p   *)
(* prepared its statement; no statement of the program reads it.           *)

Procs == {1, 2}

RacePrompt == <<" ", "A", " ", "b", " ">>

RaceCommand == "c1"

\* Rows that a store followed by feedback calls leaves behind.
FedRows(t) ==
    UNION { { [NewRow(hash_prompt(RacePrompt), sug, t) EXCEPT
                    !.use_count = u, !.success_count = k, !.fb = u,
                    !.success_rate = IF u = 0 THEN NEUTRAL_RATE ELSE <<k, u>>] :
                k \in 0..u, sug \in {x \in Suggestion : x.command = RaceCommand} } :
            u \in 0..1 }

InitRace ==
    /\ \E r \in FedRows(0) :
            /\ suggestions = <<r>>
            /\ race = [pc |-> [p \in Procs |-> "idle"],
                       arg |-> [p \in Procs |-> FALSE],
                       seen |-> [p \in Procs |-> <<0, 0>>],
                       calls |-> [p \in Procs |-> 0],
                       wins |-> 0,
                       base |-> <<r.use_count, r.success_count>>]
    /\ history = <<>>
    /\ environment \in EnvFacts
    /\ now = 0
    /\ ret = Unit
    /\ scn = ScnOff
    /\ LedgerInit
    /\ sel = SelOff
    /\ app = AppOff

RacePrepare(p) ==
    /\ race.pc[p] = "idle"
    /\ race.calls[p] < MaxCalls
    /\ \E s \in BOOLEAN :
            race' = [race EXCEPT
                        !.pc[p] = "prepared",
                        !.arg[p] = s,
                        !.seen[p] = <<suggestions[1].use_count, suggestions[1].success_count>>]
    /\ UNCHANGED <<suggestions, history, environment, now, ret, scn, ledgerVars, sel, app>>

\* Variant: the counts are read when the statement is prepared and written
\* back, incremented, when it is executed.
RaceExecute_read_then_write(p) ==
    /\ race.pc[p] = "prepared"
    /\ suggestions' =
            [suggestions EXCEPT ![1] =
                [@ EXCEPT !.use_count = race.seen[p][1] + 1,
                          !.success_count = race.seen[p][2] + Bump(race.arg[p]),
                          !.success_rate = <<race.seen[p][2] + Bump(race.arg[p]),
                                             race.seen[p][1] + 1>>,
                          !.last_used = now,
                          !.fb = @ + 1]]
    /\ ret' = Unit
    /\ race' = [race EXCEPT !.pc[p] = "idle",
                            !.arg[p] = FALSE,
                            !.seen[p] = <<0, 0>>,
                            !.calls[p] = @ + 1,
                            !.wins = @ + Bump(race.arg[p])]
    /\ UNCHANGED <<history, environment, now, scn, ledgerVars, sel, app>>

RaceExecute(p) ==
    /\ race.pc[p] = "prepared"
    /\ record_suggestion_usage(RacePrompt, RaceCommand, race.arg[p])
    /\ race' = [race EXCEPT !.pc[p] = "idle",
                            !.arg[p] = FALSE,
                            !.seen[p] = <<0, 0>>,
                            !.calls[p] = @ + 1,
                            !.wins = @ + Bump(race.arg[p])]
    /\ UNCHANGED <<history, environment, now, scn, ledgerVars, sel, app>>

NextRace == \E p \in Procs : RacePrepare(p) \/ RaceExecute(p)

SpecRace == InitRace /\ [][NextRace]_vars

----------------------------------------------------------------------------
(* The ledger as one process drives it: append_to_context (from           *)
(* cache_suggestion and from successful feedback), clear_context, and the  *)
(* clock.  Every call may meet an I/O failure, and every removal of an old *)
(* backup may fail on its own.                                             *)

\* The categories appended to: the first section of the template, its last
\* section, and one the template does not have.
Sections == {"Git", "Kubernetes", "General"}

\* The texts appended: one line; two lines, the second quoting a header.
Texts ==
    { <<T("note one")>>,
      <<T("note two"), Line("quote", "General")>> }

\* The removals that can fail in a call that gets as far as the cleanup.
StuckSets(io) ==
    IF context_file.exists /\ io \in {"ok", "write_fails"}
    THEN SUBSET Evictable(Copied(backups, clock, context_file, led.calls + 1))
    ELSE {{}}

AppendContext ==
    /\ led.calls < MaxLedgerCalls
    /\ \E section \in Sections, content \in Texts, io \in IoOutcomes :
            \E stuck \in StuckSets(io) :
                append_to_context(section, content, io, stuck)
    /\ UNCHANGED <<cacheVars, clock, sel, app>>

ClearContext ==
    /\ led.calls < MaxLedgerCalls
    /\ \E io \in IoOutcomes :
            \E stuck \in StuckSets(io) : clear_context(io, stuck)
    /\ UNCHANGED <<cacheVars, clock, sel, app>>

LedgerTick ==
    /\ clock < MaxLedgerSecond
    /\ clock' = clock + 1
    /\ UNCHANGED <<cacheVars, ret, context_file, backups, led, sel, app>>

NextLedger == AppendContext \/ ClearContext \/ LedgerTick

SpecLedger == Init /\ [][NextLedger]_vars

----------------------------------------------------------------------------
(* The rotation of the backups: a run of calls that all append the same    *)
(* text to the same section, or clear the ledger, over a stretch of        *)
(* seconds long enough for the directory to fill.                          *)

RotSection == "Git"

RotText == <<T("note one")>>

RotAppend ==
    /\ led.calls < MaxRotationCalls
    /\ \E stuck \in StuckSets("ok") :
            append_to_context(RotSection, RotText, "ok", stuck)
    /\ UNCHANGED <<cacheVars, clock, sel, app>>

RotClear ==
    /\ led.calls < MaxRotationCalls
    /\ \E stuck \in StuckSets("ok") : clear_context("ok", stuck)
    /\ UNCHANGED <<cacheVars, clock, sel, app>>

RotTick ==
    /\ clock < MaxSecond
    /\ clock' = clock + 1
    /\ UNCHANGED <<cacheVars, ret, context_file, backups, led, sel, app>>

NextRotation == RotAppend \/ RotClear \/ RotTick

SpecRotation == Init /\ [][NextRotation]_vars

----------------------------------------------------------------------------
(* The selector as one call of custom_select *)

SelectStart ==
    /\ sel.pc = "off"
    /\ \E n \in 1..MaxItems, io \in StartIo :
            sel' = custom_select_enter(n, io)
    /\ UNCHANGED <<cacheVars, ret, ledgerVars, app>>

SelectStep ==
    /\ sel.pc = "loop"
    /\ sel.steps < MaxKeys
    /\ \E ev \in Events, io \in LoopIo :
         \E arrivals \in (IF ev = "Esc" THEN Arrivals ELSE {<<>>}) :
            sel' = selection_loop(sel, ev, arrivals, io)
    /\ UNCHANGED <<cacheVars, ret, ledgerVars, app>>

NextSelect == SelectStart \/ SelectStep

SpecSelect == Init /\ [][NextSelect]_vars

----------------------------------------------------------------------------
(* The command handler: prompts, the selector's results, reset, config *)

\* What is typed at "What would you like to modify about the command?"
Requests == {<<>>, <<" ">>, <<" ", "b", " ">>}

\* The candidate the inference client answers a prompt with: c1 for the
\* prompt typed first, ls for any other.
AnswerTo(prompt) ==
    CHOOSE sug \in HandlerSuggestions :
        sug.command = "c1" <=> prompt = <<"a", " ", " ", "b">>

\* What happens to a call of handle_prompt: every statement succeeds, or
\* the one named fails, or the inference client has no candidate.
PromptOutcomes ==
    { [db |-> "ok", backend |-> "ok"],
      [db |-> "ok", backend |-> "empty"],
      [db |-> "ok", backend |-> "fails"],
      [db |-> "lookup_fails", backend |-> "ok"],
      [db |-> "context_fails", backend |-> "ok"],
      [db |-> "store_fails", backend |-> "ok"] }

HandlerFrame == <<environment, now, scn, race, clock, sel>>

InHandlerRegion ==
    /\ Len(suggestions') <= MaxHandlerRows
    /\ \A i \in DOMAIN suggestions' :
            /\ suggestions'[i].fb <= MaxHandlerFeedback
            /\ suggestions'[i].use_count - suggestions'[i].fb <= MaxHits
            /\ suggestions'[i].fb - suggestions'[i].success_count <= MaxHandlerFail
    /\ led'.calls <= MaxHandlerLedgerCalls

\* phloem <prompt>: main calls handle_prompt with the options of the
\* command line, and format_suggestions when there are candidates.
Ask ==
    /\ app.pc = "idle"
    /\ \E prompt \in HandlerPrompts, no_cache \in BOOLEAN, out \in PromptOutcomes :
            handle_prompt("prompt", prompt, prompt, no_cache, out.db, out.backend,
                          AnswerTo(prompt), "ok", {})
    /\ InHandlerRegion
    /\ UNCHANGED HandlerFrame

ChooseExecute ==
    /\ app.pc = "select"
    /\ \E spawn \in SpawnOutcomes, db \in {"ok", "usage_fails"},
          io \in {"ok", "write_fails"} :
            format_suggestions(Execute(0), spawn, <<>>, db, "ok",
                               AnswerTo(app.prompt), io, {})
    /\ InHandlerRegion
    /\ UNCHANGED HandlerFrame

ChooseOutput ==
    /\ app.pc = "select"
    /\ format_suggestions(Output(0), "exit_ok", <<>>, "ok", "ok",
                          AnswerTo(app.prompt), "ok", {})
    /\ UNCHANGED HandlerFrame

ChooseFollowup ==
    /\ app.pc = "select"
    /\ \E request \in Requests, out \in PromptOutcomes :
            /\ out.db # "lookup_fails"
            /\ format_suggestions(Followup(0), "exit_ok", request, out.db, out.backend,
                                  AnswerTo(FollowupPrompt(app.prompt, request)), "ok", {})
    /\ InHandlerRegion
    /\ UNCHANGED HandlerFrame

ChooseCancel ==
    /\ app.pc = "select"
    /\ \E action \in {Cancel, IoError} :
            format_suggestions(action, "exit_ok", <<>>, "ok", "ok",
                               AnswerTo(app.prompt), "ok", {})
    /\ UNCHANGED HandlerFrame

\* phloem clear [--cache] [--context]
Reset ==
    /\ app.pc = "idle"
    /\ \E cache \in BOOLEAN, context \in BOOLEAN, db \in {"ok", "clear_fails"} :
            handle_clear(cache, context, db, "ok", {})
    /\ led'.calls <= MaxHandlerLedgerCalls
    /\ UNCHANGED HandlerFrame

\* phloem config
Config ==
    /\ app.pc = "idle"
    /\ \E db \in {"ok", "stats_fails"} : handle_config(db)
    /\ UNCHANGED HandlerFrame

\* A caller of the library records an execution.
Record ==
    /\ app.pc = "idle"
    /\ Len(history) < MaxHistory
    /\ \E success \in BOOLEAN, db \in {"ok", "history_fails", "usage_fails"} :
            record_command_execution("c1", <<"a", " ", " ", "b">>, success, db, "ok", {})
    /\ InHandlerRegion
    /\ UNCHANGED HandlerFrame

\* The process ends; the next command runs in a new one, on the cache and
\* the ledger this one left.
Exit ==
    /\ app.pc = "done"
    /\ app' = AppOff
    /\ ret' = Unit
    /\ UNCHANGED <<suggestions, history, context_file, backups, led>>
    /\ UNCHANGED HandlerFrame

\* Prompts and what the user does with the candidates.
NextHandler ==
    Ask \/ ChooseExecute \/ ChooseOutput \/ ChooseFollowup \/ ChooseCancel \/ Exit

SpecHandler == Init /\ [][NextHandler]_vars

\* Prompts whose candidate is run, the reset command, the statistics and
\* the history.
NextReset == Ask \/ ChooseExecute \/ Reset \/ Config \/ Record \/ Exit

SpecReset == Init /\ [][NextReset]_vars

\* Prompts whose candidate is run, and the statistics, as the days pass.
NextStats == Ask \/ ChooseExecute \/ Config \/ Exit \/ Tick

SpecStats == Init /\ [][NextStats]_vars

\* Execute on a candidate whose storing already wrote a learning note: the
\* feedback of the run makes the next ledger call.
ExecuteStored ==
    /\ app.pc = "select"
    /\ \E spawn \in SpawnOutcomes, db \in {"ok", "usage_fails"},
          io \in {"ok", "write_fails"} :
            format_suggestions(Execute(0), spawn, <<>>, db, "ok",
                               AnswerTo(app.prompt), io, {})
    /\ Len(suggestions') <= MaxHandlerRows
    /\ \A i \in DOMAIN suggestions' :
            /\ suggestions'[i].fb <= MaxHandlerFeedback
            /\ suggestions'[i].fb - suggestions'[i].success_count <= MaxHandlerFail
    /\ led'.calls <= MaxStoredLedgerCalls
    /\ UNCHANGED HandlerFrame

\* Prompts whose stored candidate is run.
NextFeedback == Ask \/ ExecuteStored \/ Exit

SpecFeedback == Init /\ [][NextFeedback]_vars

----------------------------------------------------------------------------
(* Two processes in append_to_context on the same ledger.  The statements  *)
(* of the function are file system calls with nothing held between them:   *)
(* the read, the copy and cleanup of the backup, and the write are a step  *)
(* each.  race.seen[p] is the current_content p read, race.arg[p] the      *)
(* section and the text of its call.                                       *)

\* The sections a process appends to; the two processes never append to
\* the same one.
WriterSections(p) == IF p = 1 THEN {"Git", "General"} ELSE {"Docker", "Kubernetes"}

\* The texts a process appends: one line that names the process.
WriterTexts(p) ==
    { <<T("note one of " \o ToString(p))>>, <<T("note two of " \o ToString(p))>> }

NoCall == [section |-> "", content |-> <<>>]

InitWriters ==
    /\ suggestions = <<>>
    /\ history = <<>>
    /\ environment \in EnvFacts
    /\ now = 0
    /\ ret = Unit
    /\ scn = ScnOff
    /\ race = [pc |-> [p \in Procs |-> "idle"],
               arg |-> [p \in Procs |-> NoCall],
               seen |-> [p \in Procs |-> NoFile],
               calls |-> [p \in Procs |-> 0],
               wins |-> 0,
               base |-> <<0, 0>>]
    /\ LedgerInit
    /\ sel = SelOff
    /\ app = AppOff

\* let current_content = self.read_context_file()?
WriterRead(p) ==
    /\ race.pc[p] = "idle"
    /\ race.calls[p] < MaxWriterCalls
    /\ \E section \in WriterSections(p), content \in WriterTexts(p) :
            race' = [race EXCEPT
                        !.pc[p] = "read",
                        !.arg[p] = [section |-> section, content |-> content],
                        !.seen[p] = read_context_file(context_file)]
    /\ UNCHANGED <<suggestions, history, environment, now, ret, scn, ledgerVars, sel, app>>

\* self.backup_context_file()?
WriterBackup(p) ==
    /\ race.pc[p] = "read"
    /\ \E io \in {"ok", "copy_fails"} :
            LET backup == backup_context_file(io, {}) IN
            /\ backups' = backup.files
            /\ IF backup.ok
               THEN /\ race' = [race EXCEPT !.pc[p] = "backed"]
                    /\ UNCHANGED <<ret, led>>
               ELSE /\ race' = [race EXCEPT !.pc[p] = "idle",
                                            !.arg[p] = NoCall,
                                            !.seen[p] = NoFile,
                                            !.calls[p] = @ + 1]
                    /\ ret' = Err
                    /\ led' = LedgerCall("append", FALSE, {})
    /\ UNCHANGED <<suggestions, history, environment, now, scn, context_file, clock, sel, app>>

\* fs::write(&self.context_file, updated_content)?, updated_content being
\* what the call made of the current_content it read.
WriterWrite(p) ==
    /\ race.pc[p] = "backed"
    /\ LET current_content == race.seen[p]
           section == race.arg[p].section
           content == race.arg[p].content
       IN context_file' =
            IF Contains(current_content, section)
            THEN update_existing_section(current_content, section, content, clock)
            ELSE add_new_section(current_content, section, content, clock)
    /\ ret' = Unit
    /\ led' = LedgerCall("append", TRUE, {})
    /\ race' = [race EXCEPT !.pc[p] = "idle",
                            !.seen[p] = NoFile,
                            !.calls[p] = @ + 1,
                            !.wins = @ + 1]
    /\ UNCHANGED <<suggestions, history, environment, now, scn, backups, clock, sel, app>>

NextWriters == \E p \in Procs : WriterRead(p) \/ WriterBackup(p) \/ WriterWrite(p)

SpecWriters == InitWriters /\ [][NextWriters]_vars

----------------------------------------------------------------------------
(* The properties, stated in the words of the specification.  The          *)
(* predicates of this section are written from the specification's text    *)
(* and use none of the operators above that model the queries.             *)

Age(r, t) == t - r.created_at

\* "age <= 7 days, use_count >= 5, success_rate > 0.7"
EligibleWithin(r, t) ==
    /\ Age(r, t) <= 7
    /\ r.use_count >= 5
    /\ 10 * r.success_rate[1] > 7 * r.success_rate[2]

\* the same with the age strictly below 7 days
EligibleBefore(r, t) ==
    /\ Age(r, t) < 7
    /\ r.use_count >= 5
    /\ 10 * r.success_rate[1] > 7 * r.success_rate[2]

RowsOf(rows, h) == {i \in DOMAIN rows : rows[i].prompt_hash = h}

RowOf(rows, h, c) == {i \in RowsOf(rows, h) : rows[i].suggestion = c}

C2_ScenarioA ==
    /\ scn.step = 1 =>
            /\ Len(suggestions) = 1
            /\ suggestions[1].suggestion = scn.command
            /\ suggestions[1].use_count = 0
            /\ suggestions[1].success_count = 0
            /\ 2 * suggestions[1].success_rate[1] = suggestions[1].success_rate[2]
    /\ scn.step = ScnCycles + 2 => ret = scn.command

\* The scenario has run to its end and the lookup returned a command.
C2_Witness == scn.step = ScnCycles + 2 /\ ret \in Commands

\* C3: record_feedback(prompt, command, success) on an existing record
\* adds exactly 1 to use_count, adds 1 to success_count iff success, and
\* leaves success_rate = success_count / use_count.
C3_FeedbackCounts ==
    [][\A p \in TypedPrompts, c \in Commands, s \in BOOLEAN :
            record_suggestion_usage(p, c, s) =>
                \A i \in RowOf(suggestions, hash_prompt(p), c) :
                    /\ suggestions'[i].use_count = suggestions[i].use_count + 1
                    /\ suggestions'[i].success_count =
                            suggestions[i].success_count + (IF s THEN 1 ELSE 0)
                    /\ suggestions'[i].success_rate[1] * suggestions'[i].use_count =
                            suggestions'[i].success_count * suggestions'[i].success_rate[2]
                    /\ suggestions'[i].success_rate[2] > 0
      ]_vars

\* A record has taken a successful and a failed feedback call.
C3_Witness ==
    \E i \in DOMAIN suggestions :
        /\ suggestions[i].fb >= 2
        /\ suggestions[i].success_count >= 1
        /\ suggestions[i].success_count < suggestions[i].fb

\* Two characters that are the same letter in either case, or the same
\* character.
SameLetter(c, d) == c = d \/ {c, d} = {"a", "A"} \/ {c, d} = {"b", "B"}

Blank(c) == c = " "

SameText(u, v) ==
    /\ Len(u) = Len(v)
    /\ \A k \in 1..Len(u) : SameLetter(u[k], v[k])

\* The text of s between its first and its last non-blank character.
Inner(s) ==
    LET ink == {k \in 1..Len(s) : ~Blank(s[k])} IN
    IF ink = {} THEN <<>>
    ELSE SubSeq(s, CHOOSE k \in ink : \A m \in ink : k <= m,
                   CHOOSE k \in ink : \A m \in ink : k >= m)

\* The words of s: its maximal runs of non-blank characters, in order.
RECURSIVE WordsFrom(_, _, _)
WordsFrom(s, cur, acc) ==
    LET closed == IF cur = <<>> THEN acc ELSE Append(acc, cur) IN
    IF s = <<>> THEN closed
    ELSE IF Blank(Head(s)) THEN WordsFrom(Tail(s), <<>>, closed)
    ELSE WordsFrom(Tail(s), Append(cur, Head(s)), acc)

Words(s) == WordsFrom(s, <<>>, <<>>)

\* P and Q differ only in letter case or in leading or trailing whitespace.
DifferOnlyInCaseOrEnds(p, q) == SameText(Inner(p), Inner(q))

\* P and Q differ only in letter case or in whitespace, between words too.
DifferOnlyInCaseOrSpace(p, q) ==
    /\ Len(Words(p)) = Len(Words(q))
    /\ \A k \in 1..Len(Words(p)) : SameText(Words(p)[k], Words(q)[k])

\* What lookup can return for a prompt in the current state.
LookupResults(p) ==
    {suggestions[i].suggestion : i \in BestRows(suggestions, hash_prompt(p), now)}

\* C4 (as claimed): prompts that differ only in letter case or in
\* whitespace (leading, trailing or between words) have the same hash, and
\* lookup returns the same record for both.
C4_SameHashUpToCaseAndSpace ==
    \A p, q \in Prompts :
        DifferOnlyInCaseOrSpace(p, q) =>
            /\ hash_prompt(p) = hash_prompt(q)
            /\ LookupResults(p) = LookupResults(q)

\* C4 (amended): prompts that differ only in letter case or in leading or
\* trailing whitespace have the same hash, and lookup returns the same
\* record for both.
C4_SameHashUpToCaseAndEnds ==
    \A p, q \in Prompts :
        DifferOnlyInCaseOrEnds(p, q) =>
            /\ hash_prompt(p) = hash_prompt(q)
            /\ LookupResults(p) = LookupResults(q)

\* Two different prompts of that kind, a record that lookup returns for
\* them, and a lookup that has returned it.
C4_Witness ==
    /\ ret \in Commands
    /\ \E p, q \in Prompts :
            /\ p # q
            /\ DifferOnlyInCaseOrEnds(p, q)
            /\ ret \in LookupResults(q)
            /\ \E i \in DOMAIN suggestions : suggestions[i].use_count > suggestions[i].fb

\* C5: with two processes calling record_feedback on the same record, after
\* k calls in all use_count has grown by k, success_count by the number of
\* successful calls, and success_rate = success_count / use_count.
C5_NoLostUpdate ==
    LET k == race.calls[1] + race.calls[2]
        r == suggestions[1]
    IN
    /\ r.use_count = race.base[1] + k
    /\ r.success_count = race.base[2] + race.wins
    /\ k > 0 => /\ r.success_rate[2] > 0
                /\ r.success_rate[1] * r.use_count = r.success_count * r.success_rate[2]

\* Both processes have finished a call and both are in the middle of their
\* next one.
C5_Witness ==
    /\ \A p \in Procs : race.pc[p] = "prepared" /\ race.calls[p] >= 1
    /\ race.wins >= 1

\* C6: a record that lookup returns has itself received at least 5
\* record_feedback calls.
C6_ReturnedRecordWasConfirmed ==
    [][\A p \in Prompts : (get_suggestion(p) /\ ret' # None) =>
            \A i \in RowOf(suggestions, hash_prompt(p), ret') : suggestions[i].fb >= 5
      ]_vars

\* C7: a lookup hit adds exactly 1 to the use_count of the record it
\* returns, sets its last-used time to the present, and leaves its
\* success_count as it was.
C7_HitBumpsReturnedRecord ==
    [][\A p \in Prompts : (get_suggestion(p) /\ ret' # None) =>
            /\ RowOf(suggestions, hash_prompt(p), ret') # {}
            /\ \A i \in RowOf(suggestions, hash_prompt(p), ret') :
                    /\ suggestions'[i].use_count = suggestions[i].use_count + 1
                    /\ suggestions'[i].last_used = now
                    /\ suggestions'[i].success_count = suggestions[i].success_count
      ]_vars

\* A lookup has returned a record on a later day than the record was last
\* fed back: its use_count is ahead of its feedback calls and its last-used
\* time is the day of the lookup.
C7_Witness ==
    /\ ret \in Commands
    /\ now > 0
    /\ \E i \in DOMAIN suggestions :
            /\ suggestions[i].suggestion = ret
            /\ suggestions[i].use_count > suggestions[i].fb
            /\ suggestions[i].last_used = now
            /\ suggestions[i].created_at < now

\* C8: a lookup that finds no reuse-eligible record for the prompt returns
\* None, and a lookup that returns None leaves the suggestions, history and
\* environment tables as they were.
C8_MissChangesNothing ==
    [][\A p \in Prompts : get_suggestion(p) =>
            /\ (\A i \in RowsOf(suggestions, hash_prompt(p)) :
                    ~EligibleWithin(suggestions[i], now)) => ret' = None
            /\ ret' = None =>
                    /\ suggestions' = suggestions
                    /\ history' = history
                    /\ environment' = environment
      ]_vars

\* A lookup has returned None while the table holds a record that has been
\* used but is not eligible.
C8_Witness ==
    /\ ret = None
    /\ \E i \in DOMAIN suggestions :
            /\ suggestions[i].use_count >= 1
            /\ ~EligibleWithin(suggestions[i], now)

\* success_rate * 0.6 + confidence * 0.4 of r is at least that of q
\* (both sides multiplied by 100 and by the two denominators).
RankKeyGe(r, q) ==
    (60 * r.success_rate[1] + 4 * r.confidence * r.success_rate[2]) * q.success_rate[2]
        >= (60 * q.success_rate[1] + 4 * q.confidence * q.success_rate[2]) * r.success_rate[2]

\* C9: the record that lookup returns is reuse-eligible and no eligible
\* record with the prompt's hash has a strictly higher rank key.
C9_ReturnsTopRanked ==
    [][\A p \in Prompts : (get_suggestion(p) /\ ret' # None) =>
            \E i \in RowOf(suggestions, hash_prompt(p), ret') :
                /\ EligibleBefore(suggestions[i], now)
                /\ \A j \in RowsOf(suggestions, hash_prompt(p)) :
                        EligibleBefore(suggestions[j], now) =>
                            RankKeyGe(suggestions[i], suggestions[j])
      ]_vars

\* Two eligible records under one hash, the one of strictly higher rank key
\* returned by a lookup.
C9_Witness ==
    \E i, j \in DOMAIN suggestions :
        /\ i # j
        /\ suggestions[i].prompt_hash = suggestions[j].prompt_hash
        /\ EligibleBefore(suggestions[i], now)
        /\ EligibleBefore(suggestions[j], now)
        /\ ~RankKeyGe(suggestions[j], suggestions[i])
        /\ ret = suggestions[i].suggestion
        /\ suggestions[i].use_count > suggestions[i].fb

\* C10: store for a (hash, command) that has no record appends exactly one
\* record, with use_count 0, success_count 0 and success_rate 0.5, and a
\* lookup made right afterwards does not return that record.
C10_StoreInsertsNeutralRecord ==
    [][\A p \in TypedPrompts, sug \in Suggestion :
            (cache_suggestion(p, sug)
                /\ RowOf(suggestions, hash_prompt(p), sug.command) = {}) =>
                LET n == Len(suggestions) + 1 IN
                /\ Len(suggestions') = n
                /\ SubSeq(suggestions', 1, n - 1) = suggestions
                /\ suggestions'[n].prompt_hash = hash_prompt(p)
                /\ suggestions'[n].suggestion = sug.command
                /\ suggestions'[n].use_count = 0
                /\ suggestions'[n].success_count = 0
                /\ 2 * suggestions'[n].success_rate[1] = suggestions'[n].success_rate[2]
                /\ n \notin BestRows(suggestions', hash_prompt(p), now')
                /\ \A q \in Prompts :
                        hash_prompt(q) # hash_prompt(p) \/
                        n \notin BestRows(suggestions', hash_prompt(q), now')
      ]_vars

\* A store has just appended a second record, next to a record that is
\* reuse-eligible under the same hash.
C10_Witness ==
    /\ ret = Unit
    /\ Len(suggestions) = 2
    /\ suggestions[2].prompt_hash = suggestions[1].prompt_hash
    /\ suggestions[2].use_count = 0
    /\ suggestions[2].fb = 0
    /\ suggestions[2].success_rate = <<1, 2>>
    /\ EligibleBefore(suggestions[1], now)

----------------------------------------------------------------------------
(* The ledger, in the words of the specification *)

\* The heading lines of a document: "### ..." and the "#" and "##" lines.
IsHeading(line) ==
    \/ line.k = "h3"
    \/ /\ line.k = "text"
       /\ line.s \in {"# Phloem Context", "## User Profile", "## Environment",
                      "## Command Patterns", "## Recent Context", "## Learning Notes"}

HasSection(f, section) == \E i \in DOMAIN f.lines : f.lines[i] = [k |-> "h3", s |-> section]

\* The lines of a section: those after its heading, up to the next heading.
SectionBody(f, section) ==
    LET heads == {i \in DOMAIN f.lines : f.lines[i] = [k |-> "h3", s |-> section]}
        start == CHOOSE i \in heads : \A j \in heads : i <= j
        ends == {j \in DOMAIN f.lines : j > start /\ IsHeading(f.lines[j])}
        stop == IF ends = {} THEN Len(f.lines) + 1
                ELSE CHOOSE j \in ends : \A m \in ends : j <= m
    IN SubSeq(f.lines, start + 1, stop - 1)

Range(q) == {q[i] : i \in DOMAIN q}

Markers(body) == {i \in DOMAIN body : body[i].k = "lu"}

\* The entry lines of a section body: its lines of text.
Entries(body) ==
    {body[i] : i \in {j \in DOMAIN body :
                        body[j].k # "lu" /\ body[j] # [k |-> "text", s |-> ""]}}

\* C13: after append(section, text) on a section the ledger already has,
\* the section holds exactly one "Last updated" line, holds the new text,
\* and still holds every entry line its body held before the call.
C13_AppendKeepsSectionEntries ==
    [][\A section \in Sections, content \in Texts, io \in IoOutcomes :
            (/\ append_to_context(section, content, io, {})
             /\ HasSection(context_file, section)
             /\ ret' = Unit) =>
                /\ HasSection(context_file', section)
                /\ Cardinality(Markers(SectionBody(context_file', section))) = 1
                /\ Range(content) \subseteq Range(SectionBody(context_file', section))
                /\ Entries(SectionBody(context_file, section))
                        \subseteq Entries(SectionBody(context_file', section))
      ]_vars

\* C14: after more than 5 successive append calls exactly 5 backup files
\* remain, and they are the snapshots taken by the 5 most recent calls.
C14_FiveNewestSnapshotsRemain ==
    led.run > 5 =>
        /\ Len(backups) = 5
        /\ {backups[i].by : i \in DOMAIN backups} = (led.calls - 4)..led.calls

\* C15: after every completed append or clear_context call in which no
\* removal failed, the backups directory holds at most 5 files, the
\* snapshot the call took (the newest file) is among them, and every file
\* the call evicted had an older modification time than every file of
\* before the call that it kept.
C15_AtMostFiveOldestEvicted ==
    [][(led'.calls = led.calls + 1 /\ led'.ok /\ ~led'.stuck) =>
            LET kept == {backups'[i].name : i \in DOMAIN backups'} IN
            /\ Len(backups') <= 5
            /\ context_file.exists => clock \in kept
            /\ \A i \in DOMAIN backups :
                    backups[i].name \notin kept =>
                        \A j \in DOMAIN backups :
                            backups[j].name \in kept /\ backups[j].name # clock => i < j
      ]_vars

\* Six calls on six different seconds: the backup of the first call has
\* been evicted and the five later ones are there.
C15_Witness ==
    /\ led.calls = 6
    /\ led.ok
    /\ ~led.stuck
    /\ Len(backups) = 5
    /\ \A i \in DOMAIN backups : backups[i].by = i + 1

\* The learned lines of a document: the lines of the texts appended.
Learned(f) == Range(f.lines) \cap UNION {Range(content) : content \in Texts}

\* C16: clear_context on an existing document D leaves a document that
\* reads as the freshly generated template, with none of D's learned
\* lines, and a backup file whose content is D.
C16_ClearLeavesTemplateAndBackup ==
    [][\A io \in IoOutcomes :
            (clear_context(io, {}) /\ context_file.exists /\ ret' = Unit) =>
                /\ read_context_file(context_file') = create_initial_context_file(clock)
                /\ Learned(read_context_file(context_file')) = {}
                /\ \E i \in DOMAIN backups' : backups'[i].content = context_file
      ]_vars

\* A document with learned lines has been cleared: the lines are in a
\* backup and not in the document.
C16_Witness ==
    /\ led.last = "clear"
    /\ led.ok
    /\ Learned(context_file) = {}
    /\ \E i \in DOMAIN backups : Learned(backups[i].content) # {}

\* C17: when the backup step of append or clear_context fails, the content
\* is written all the same and the call returns Ok; only a failed content
\* write makes the call fail.
C17_FailedBackupDoesNotBlockWrite ==
    [][/\ \A section \in Sections, content \in Texts, io \in {"copy_fails", "list_fails"} :
            append_to_context(section, content, io, {}) =>
                /\ ret' = Unit
                /\ Range(content) \subseteq Range(context_file'.lines)
       /\ \A io \in {"copy_fails", "list_fails"} :
            clear_context(io, {}) =>
                /\ ret' = Unit
                /\ Learned(context_file') = {}
      ]_vars

----------------------------------------------------------------------------
(* The selector, in the words of the specification *)

\* The key events among those that arrived within 300 ms of the Escape.
KeysInWindow(arrivals) ==
    {i \in DOMAIN arrivals : arrivals[i].at < 300 /\ arrivals[i].e # "Resize"}

\* C18: after an Escape key, with the terminal calls succeeding: a second
\* Escape arriving within 300 ms resolves Cancel; any other key arriving
\* within 300 ms resolves Followup(selected) and is consumed without an
\* action of its own; no input within 300 ms resolves Followup(selected);
\* nothing else can follow an Escape.
C18_EscapeProtocol ==
    (sel.pc = "returned" /\ sel.ev = "Esc" /\ sel.io = "ok") =>
        LET keys == KeysInWindow(sel.arrivals) IN
        /\ sel.result \in {[a |-> "Cancel", i |-> -1], [a |-> "Followup", i |-> sel.prev]}
        /\ IF keys = {}
           THEN sel.result = [a |-> "Followup", i |-> sel.prev]
           ELSE LET second == sel.arrivals[CHOOSE i \in keys : \A j \in keys : i <= j].e IN
                IF second = "Esc"
                THEN sel.result = [a |-> "Cancel", i |-> -1]
                ELSE /\ sel.result = [a |-> "Followup", i |-> sel.prev]
                     /\ sel.selected = sel.prev
                     /\ sel.read = 1

\* C19: once custom_select has entered raw mode, the terminal is out of
\* raw mode when custom_select has returned or unwound: after a normal
\* resolution, after an I/O error while entering the alternate screen,
\* after an error inside the selection loop, and after a panic.
C19_RawModeRestored ==
    (/\ sel.pc \in {"returned", "unwound"}
     /\ sel.entered
     /\ sel.how \in {"resolved", "alt_fails", "loop_error", "panic"}) => ~sel.raw

\* C20: for a list of n >= 1 candidates the cursor stays within 0..n-1;
\* Up at 0 leaves it at 0, Down at n-1 leaves it at n-1, otherwise Up and
\* Down move it by exactly one, and neither resolves the selector.
C20_CursorClamped ==
    [][/\ sel'.pc # "off" => sel'.selected \in 0..(sel'.n - 1)
       /\ (sel.pc = "loop" /\ sel'.ev = "Up") =>
            /\ sel'.pc = "loop"
            /\ sel'.selected = IF sel.selected = 0 THEN 0 ELSE sel.selected - 1
       /\ (sel.pc = "loop" /\ sel'.ev = "Down") =>
            /\ sel'.pc = "loop"
            /\ sel'.selected = IF sel.selected = sel.n - 1 THEN sel.n - 1
                                ELSE sel.selected + 1
      ]_vars

\* Down was pressed on the last of three candidates and the cursor stayed.
C20_Witness ==
    /\ sel.pc = "loop"
    /\ sel.n = 3
    /\ sel.ev = "Down"
    /\ sel.prev = 2
    /\ sel.selected = 2

\* C21: while the selector awaits a key with the cursor at i, and with the
\* terminal calls succeeding: Enter resolves Execute(i), Tab resolves
\* Output(i), f and F resolve Followup(i), and a key other than Up, Down,
\* Enter, Tab, f, F and Escape resolves nothing and leaves the cursor at i.
C21_KeysResolve ==
    [][(sel.pc = "loop" /\ sel'.steps = sel.steps + 1 /\ sel'.io = "ok") =>
            /\ sel'.ev = "Enter" =>
                    /\ sel'.pc = "returned"
                    /\ sel'.result = [a |-> "Execute", i |-> sel.selected]
            /\ sel'.ev = "Tab" =>
                    /\ sel'.pc = "returned"
                    /\ sel'.result = [a |-> "Output", i |-> sel.selected]
            /\ sel'.ev \in {"f", "F"} =>
                    /\ sel'.pc = "returned"
                    /\ sel'.result = [a |-> "Followup", i |-> sel.selected]
            /\ sel'.ev \notin {"none", "Resize", "Up", "Down", "Enter", "Tab", "f", "F", "Esc"} =>
                    /\ sel'.pc = "loop"
                    /\ sel'.result = [a |-> "None", i |-> -1]
                    /\ sel'.selected = sel.selected
      ]_vars

\* Tab was pressed with the cursor on the last of three candidates, after
\* another key had been pressed there and ignored.
C21_Witness ==
    /\ sel.pc = "returned"
    /\ sel.io = "ok"
    /\ sel.ev = "Tab"
    /\ sel.steps = 4
    /\ sel.result = [a |-> "Output", i |-> 2]

\* C22: every Execute resolution leads to exactly one feedback call into
\* the context manager, for the prompt of the session, the command selected
\* and success, made in the step that ends the command; success is true
\* iff the command was spawned and exited successfully, and false when it
\* could not be spawned.
C22_ExecuteFeedsBack ==
    [][\A spawn \in {"exit_ok", "exit_fail", "spawn_fails"},
          db \in {"ok", "usage_fails"}, io \in {"ok", "write_fails"} :
            (/\ app.pc = "select"
             /\ app'.last.op = "execute"
             /\ format_suggestions([a |-> "Execute", i |-> 0], spawn, <<>>, db, "ok",
                                   AnswerTo(app.prompt), io, {})) =>
                /\ app'.pc = "done"
                /\ Len(app'.last.feedback) = 1
                /\ app'.last.feedback[1] = [prompt |-> app.prompt,
                                            command |-> app.offered[1],
                                            success |-> (spawn = "exit_ok")]
      ]_vars

\* The command selected could not be spawned, and the failure was fed back.
C22_Witness ==
    /\ app.pc = "done"
    /\ app.last.op = "execute"
    /\ app.last.spawned = 0
    /\ Len(app.last.feedback) = 1
    /\ ~app.last.feedback[1].success

\* C23: an Output resolution spawns no process and records no feedback:
\* the use_count, success_count and success_rate of every suggestion
\* record, the history table and the ledger are unchanged by it.
C23_OutputChangesNothing ==
    [][ChooseOutput =>
            /\ app'.last.spawned = 0
            /\ app'.last.feedback = <<>>
            /\ DOMAIN suggestions' = DOMAIN suggestions
            /\ \A i \in DOMAIN suggestions :
                    /\ suggestions'[i].use_count = suggestions[i].use_count
                    /\ suggestions'[i].success_count = suggestions[i].success_count
                    /\ suggestions'[i].success_rate = suggestions[i].success_rate
            /\ history' = history
            /\ context_file' = context_file
            /\ backups' = backups
      ]_vars

\* Tab was pressed on a candidate that has a record in the cache.
C23_Witness ==
    /\ app.pc = "done"
    /\ app.last.op = "output"
    /\ suggestions # <<>>

\* The refinement typed: the request without the blanks around it (the
\* requests of the model have none inside).
Refinement(request) ==
    LET NotBlank(c) == c # " " IN SelectSeq(request, NotBlank)

\* C24: on a Followup resolution with a non-empty refinement r, generation
\* is run again on the prompt "<original> (<r>)" with the cache disabled:
\* no lookup is made for that request, no use_count is changed, and the
\* candidates shown next come from the inference backend.
C24_FollowupBypassesCache ==
    [][\A request \in Requests, out \in PromptOutcomes :
            (/\ app.pc = "select"
             /\ Refinement(request) # <<>>
             /\ app'.last.op = "followup"
             /\ format_suggestions([a |-> "Followup", i |-> 0], "exit_ok", request,
                                   out.db, out.backend,
                                   AnswerTo(FollowupPrompt(app.prompt, request)),
                                   "ok", {})) =>
                /\ app'.last.asked =
                        app.prompt \o <<" ", "(">> \o Refinement(request) \o <<")">>
                /\ app'.last.lookups = 0
                /\ \A i \in DOMAIN suggestions :
                        /\ i \in DOMAIN suggestions'
                        /\ suggestions'[i].use_count = suggestions[i].use_count
                /\ app'.pc = "select" =>
                        /\ app'.last.source = "backend"
                        /\ app'.offered = <<AnswerTo(app'.last.asked).command>>
      ]_vars

\* A follow-up was answered by the backend while the cache held a record
\* of the follow-up prompt that a lookup would have returned.
C24_Witness ==
    /\ app.pc = "select"
    /\ app.last.op = "followup"
    /\ app.last.source = "backend"
    /\ \E i \in DOMAIN suggestions :
            /\ suggestions[i].prompt_hash = hash_prompt(app.last.asked)
            /\ suggestions[i].use_count >= 5
            /\ RateGt(suggestions[i].success_rate, <<7, 10>>)
            /\ suggestions[i].created_at > now - 7

\* The lines of the document after a step that were not in it before.
AddedLines == Range(context_file'.lines) \ Range(context_file.lines)

\* C25: feedback routing for a successful execution of a command whose
\* executable is not in the trivial set appends a note that the executable
\* is validated, appends a generic note of what was suggested and how it
\* went, and forwards the outcome to the cache.
C25_SuccessWritesBothNotes ==
    [][(/\ app.pc = "select"
        /\ app.offered[1] \notin {"ls", "cd", "pwd", "echo", "cat", "grep"}
        /\ format_suggestions([a |-> "Execute", i |-> 0], "exit_ok", <<>>, "ok", "ok",
                              AnswerTo(app.prompt), "ok", {})) =>
            /\ \E line \in AddedLines :
                    line.s = "Validated executable: " \o app.offered[1]
            /\ \E line \in AddedLines :
                    line.s \in {"Successful execution:", "Suggested: " \o app.offered[1]}
            /\ app'.last.feedback # <<>>
      ]_vars

\* C26: feedback routing for a failed execution updates only the counters
\* of the cache: the ledger document and the backups directory are
\* unchanged by it.
C26_FailureLeavesLedger ==
    [][\A spawn \in {"exit_fail", "spawn_fails"}, db \in {"ok", "usage_fails"},
          io \in {"ok", "write_fails"} :
            (/\ app.pc = "select"
             /\ app'.last.op = "execute"
             /\ format_suggestions([a |-> "Execute", i |-> 0], spawn, <<>>, db, "ok",
                                   AnswerTo(app.prompt), io, {})) =>
                /\ context_file' = context_file
                /\ backups' = backups
                /\ history' = history
      ]_vars

\* The command c1 failed and the failure is counted on its record.
C26_Witness ==
    /\ app.pc = "done"
    /\ app.last.op = "execute"
    /\ app.last.feedback # <<>>
    /\ app.last.feedback[1].command = "c1"
    /\ ~app.last.feedback[1].success
    /\ \E i \in DOMAIN suggestions :
            /\ suggestions[i].suggestion = "c1"
            /\ suggestions[i].use_count = 1
            /\ suggestions[i].success_count = 0

\* C27: every execution attempt made through the selector's Execute path
\* appends exactly one record to the history table.
C27_ExecuteAppendsHistory ==
    [][ChooseExecute => Len(history') = Len(history) + 1]_vars

\* C29: after the reset command has cleared the cache, the suggestions
\* and history tables are both empty and a lookup finds no record for any
\* prompt; the environment facts are unchanged; and no step other than the
\* reset command empties a table.
C29_ClearEmptiesBothTables ==
    [][/\ \A context \in BOOLEAN :
            (/\ app.pc = "idle"
             /\ app'.last.op = "clear"
             /\ handle_clear(TRUE, context, "ok", "ok", {})) =>
                /\ suggestions' = <<>>
                /\ history' = <<>>
                /\ environment' = environment
                /\ \A prompt \in HandlerPrompts :
                        ~\E i \in DOMAIN suggestions' :
                            suggestions'[i].prompt_hash = hash_prompt(prompt)
       /\ (\/ Len(suggestions') < Len(suggestions)
           \/ Len(history') < Len(history)) => app'.last.op = "clear"
      ]_vars

\* The reset command has cleared the cache; the ledger still holds the
\* note of an execution that was recorded in the history before.
C29_Witness ==
    /\ app.pc = "done"
    /\ app.last.op = "clear"
    /\ app.last.clears = 1
    /\ app.last.failed = "none"
    /\ suggestions = <<>>
    /\ history = <<>>
    /\ \E i \in DOMAIN context_file.lines :
            context_file.lines[i].s = "Successful execution:"

\* C30: a storage failure inside a cache operation is never masked: the
\* operation of the context manager that ran into a failed lookup or a
\* failed usage update returns the error, and a failed lookup is not
\* treated as a cache miss.
C30_CacheFailuresReturned ==
    [][app'.last.failed \in {"lookup", "usage"} =>
            /\ ret' = Err
            /\ app'.last.source = "none"
      ]_vars

\* The records that meet the admission predicate of lookup as the
\* specification words it: at most 7 days old, used at least 5 times, with
\* a success rate above 0.7.
ReadyForReuse ==
    {i \in DOMAIN suggestions :
        /\ now - suggestions[i].created_at <= 7
        /\ suggestions[i].use_count >= 5
        /\ suggestions[i].success_rate[1] * 10 > 7 * suggestions[i].success_rate[2]}

\* C28: the "ready for reuse" count that stats reports equals the number
\* of records that meet the admission predicate of lookup, and stats
\* changes no row.
C28_ReadyCountIsAdmittedCount ==
    [][Config =>
            /\ suggestions' = suggestions
            /\ app'.last.stats.ok =>
                    app'.last.stats.ready = Cardinality(ReadyForReuse)
      ]_vars

C34_HitLeavesOtherRecords ==
    [][\A p \in Prompts : (get_suggestion(p) /\ ret' # None) =>
            \A i \in DOMAIN suggestions :
                suggestions[i].suggestion # ret' =>
                    /\ suggestions'[i].use_count = suggestions[i].use_count
                    /\ suggestions'[i].success_count = suggestions[i].success_count
                    /\ suggestions'[i].success_rate = suggestions[i].success_rate
                    /\ suggestions'[i].last_used = suggestions[i].last_used
      ]_vars

\* C35: a reuse-eligible record that is served by a lookup and then
\* executed successfully, cycle after cycle, is returned by every one of
\* these lookups while it is less than 7 days old.
C35_ServedRecordStaysEligible ==
    [][ServeLookup => ret' = scn.command]_vars

\* C32: in handle_prompt with the cache enabled, when the lookup returns
\* a record the inference backend is not called, nothing is stored and
\* nothing is appended to the ledger, and the candidates are exactly that
\* one cached command; the candidates come from the backend only when the
\* lookup returned no record or the cache is disabled.
C32_HitSkipsBackend ==
    [][\A prompt \in HandlerPrompts, no_cache \in BOOLEAN, out \in PromptOutcomes :
            (/\ app.pc = "idle"
             /\ app'.last.op = "prompt"
             /\ handle_prompt("prompt", prompt, prompt, no_cache, out.db, out.backend,
                               AnswerTo(prompt), "ok", {})) =>
                LET returned ==
                        {i \in DOMAIN suggestions :
                            /\ ~no_cache
                            /\ out.db # "lookup_fails"
                            /\ suggestions[i].prompt_hash = hash_prompt(prompt)
                            /\ suggestions[i].use_count >= 5
                            /\ RateGt(suggestions[i].success_rate, <<7, 10>>)
                            /\ suggestions[i].created_at > now - 7}
                IN
                /\ returned # {} =>
                        /\ app'.pc = "select"
                        /\ app'.last.source = "cache"
                        /\ \E i \in returned : app'.offered = <<suggestions[i].suggestion>>
                        /\ Len(suggestions') = Len(suggestions)
                        /\ \A i \in DOMAIN suggestions :
                                /\ suggestions'[i].suggestion = suggestions[i].suggestion
                                /\ suggestions'[i].created_at = suggestions[i].created_at
                                /\ suggestions'[i].success_count = suggestions[i].success_count
                        /\ context_file' = context_file
                        /\ backups' = backups
                        /\ led' = led
                /\ app'.last.source = "backend" => returned = {}
      ]_vars

\* The prompt was answered from the cache: one lookup, the cached command
\* ls on the screen.
C32_Witness ==
    /\ app.pc = "select"
    /\ app.last.op = "prompt"
    /\ app.last.lookups = 1
    /\ app.last.source = "cache"
    /\ app.offered = <<"ls">>

\* C36: when a candidate obtained through a follow-up request is executed,
\* the feedback is recorded for the prompt under which that candidate was
\* stored, "<original> (<refinement>)", and the use_count of the stored
\* record increases by 1.
C36_FollowupFeedbackReachesRecord ==
    [][\A spawn \in {"exit_ok", "exit_fail", "spawn_fails"} :
            (/\ app.pc = "select"
             /\ app.last.op = "followup"
             /\ app'.last.op = "execute"
             /\ format_suggestions([a |-> "Execute", i |-> 0], spawn, <<>>, "ok", "ok",
                                   AnswerTo(app.prompt), "ok", {})) =>
                /\ app'.last.feedback[1].prompt = app.last.asked
                /\ \A i \in DOMAIN suggestions :
                        (/\ suggestions[i].prompt_hash = hash_prompt(app.last.asked)
                         /\ suggestions[i].suggestion = app.offered[1]) =>
                            suggestions'[i].use_count = suggestions[i].use_count + 1
      ]_vars

\* C39: in feedback routing for a successful execution the counters of
\* the executed (prompt, command) record are updated whenever the cache
\* store works, even if the ledger append fails.
C39_LedgerFailureKeepsFeedback ==
    [][\A io \in {"ok", "write_fails"} :
            (/\ app.pc = "select"
             /\ app'.last.op = "execute"
             /\ format_suggestions([a |-> "Execute", i |-> 0], "exit_ok", <<>>, "ok", "ok",
                                   AnswerTo(app.prompt), io, {})) =>
                \A i \in DOMAIN suggestions :
                    (/\ suggestions[i].prompt_hash = hash_prompt(app.prompt)
                     /\ suggestions[i].suggestion = app.offered[1]) =>
                        /\ suggestions'[i].use_count = suggestions[i].use_count + 1
                        /\ suggestions'[i].success_count = suggestions[i].success_count + 1
      ]_vars

\* C40: stats returns a report in every cache state, the empty cache and
\* a cache with no record of success_rate > 0.8 included, and the mean
\* success rate it reports is the mean over all suggestion records.
C40_StatsAlwaysReports ==
    [][(/\ app.pc = "idle"
        /\ app'.last.op = "config"
        /\ handle_config("ok")) =>
            /\ app'.last.stats.ok
            /\ app'.last.stats.total = Len(suggestions)
            /\ suggestions # <<>> =>
                    app'.last.stats.avg =
                        PerMille(RateAvg(suggestions, DOMAIN suggestions))
      ]_vars

\* The lines of a document outside a section it has: those up to the
\* section's heading, and those from the next heading on.
Outside(f, section) ==
    LET heads == {i \in DOMAIN f.lines : f.lines[i] = [k |-> "h3", s |-> section]}
        start == CHOOSE i \in heads : \A j \in heads : i <= j
    IN [before |-> SubSeq(f.lines, 1, start),
        after |-> SubSeq(f.lines, start + Len(SectionBody(f, section)) + 1, Len(f.lines))]

\* C37: append(section, text) on an existing section leaves every line of
\* the ledger outside that section unchanged, for every section of the
\* document, the last "### " section before a "## " heading included: the
\* "## Recent Context" and "## Learning Notes" blocks and the entries of
\* all other sections are still present after the call.
C37_AppendKeepsOtherLines ==
    [][\A section \in Sections, content \in Texts :
            (/\ HasSection(context_file, section)
             /\ led'.last = "append"
             /\ append_to_context(section, content, "ok", {})) =>
                /\ HasSection(context_file', section)
                /\ Outside(context_file', section) = Outside(context_file, section)
      ]_vars

\* C31: the progress-spinner thread started by an operation is signalled
\* to stop and joined before the operation returns control, on every
\* return path, the one where the inference backend call fails included:
\* no spinner thread is still running after the handler has returned.
C31_SpinnerJoinedOnReturn ==
    app.pc \in {"select", "done"} =>
        /\ ~app.last.spinner.running
        /\ ~app.last.spinner.alive

\* C38: when two processes run append on the same ledger document
\* concurrently, each reading the document, backing it up and then writing
\* it, the final document holds the entries of both appends under every
\* interleaving: neither write overwrites the entry of the other.
C38_BothAppendsKept ==
    (\A p \in Procs : race.pc[p] = "idle" /\ race.arg[p] # NoCall) =>
        \A p \in Procs :
            Range(race.arg[p].content) \subseteq Range(context_file.lines)

=============================================================================
